---- MODULE Spec2Model ----
(***************************************************************************)
(* Model of the gemini-cli-proxy streaming pipeline:                       *)
(*   upstream Gemini SSE records                                           *)
(*     -> GeminiApiClient.streamContentInternal (normalized chunks)        *)
(*     -> streamAnthropicResponse (Anthropic SSE events)                   *)
(*      / getCompletion + mapGeminiResponseToAnthropic (non-streamed).     *)
(* JavaScript strings are sequences of one-character strings; an optional  *)
(* value is the empty sequence (undefined or null) or a one-element        *)
(* sequence.                                                               *)
(***************************************************************************)
EXTENDS Integers, Sequences, FiniteSets, TLC

\* ------------------------------------------------------------------ bounds
MaxParts == 3        \* upstream parts read over the life of the client
MaxRequests == 2     \* requests served by the one GeminiApiClient
MaxChunks == 3       \* chunks fed to the emitter by the free chunk source
MaxClock == 1200001  \* Date.now() in milliseconds goes no further
MaxMessages == 3     \* messages, or input items, of a request handed to a mapper
MaxDepth == 2        \* schemas nested in a schema handed to the schema mapper
MaxSuffixes == 2     \* bracketed suffixes at the end of a model name
MaxCalls == 1        \* getCompletion or streamContent calls followed in a row
MaxStack == 12       \* nested calls the call stack has room for

\* ------------------------------------------------------- program constants
MIN_SIGNATURE_LENGTH == 100
DEFAULT_COOLDOWN_MINUTES == 10
MAX_RETRIES == 30    \* the local constant of discoverProjectId

\* ----------------------------------------------------------------- options
None == <<>>
Some(x) == <<x>>

\* ----------------------------------------------------------------- strings
EmptyStr == <<>>

WhitespaceChars == {" ", "\n", "\t"}

RECURSIVE TrimStart(_)
TrimStart(s) ==
    IF s = <<>> THEN <<>>
    ELSE IF Head(s) \in WhitespaceChars THEN TrimStart(Tail(s))
    ELSE s

RECURSIVE TrimEnd(_)
TrimEnd(s) ==
    IF s = <<>> THEN <<>>
    ELSE IF s[Len(s)] \in WhitespaceChars THEN TrimEnd(SubSeq(s, 1, Len(s) - 1))
    ELSE s

\* String.prototype.trim
Trim(s) == TrimEnd(TrimStart(s))

\* JavaScript truthiness of an optional string: defined, non-null, non-empty
TruthyStr(o) == o # None /\ o[1] # EmptyStr

\* JavaScript truthiness of an optional array or object: defined and non-null
TruthyObj(o) == o # None

\* -------------------------------------------------------------- signatures
\* A thought signature is an opaque string; the code only tests its length
\* and copies it. It is kept as its length and a tag naming its content.
Sig(len, tag) == [len |-> len, tag |-> tag]

SigNone == Sig(0, "")
SigShort == Sig(MIN_SIGNATURE_LENGTH - 1, "s")
SigA == Sig(MIN_SIGNATURE_LENGTH, "a")
SigB == Sig(MIN_SIGNATURE_LENGTH + 1, "b")

\* typeof signature === "string" && signature.length >= MIN_SIGNATURE_LENGTH
isValidSignature(signature) == signature.len >= MIN_SIGNATURE_LENGTH

\* -------------------------------------------------------------------- JSON
\* JSON values of the tool-call arguments: a number, or an object given as a
\* sequence of <<key, value>> pairs.
JNum(d) == [t |-> "num", d |-> d, kv |-> <<>>]
JObj(kv) == [t |-> "obj", d |-> "", kv |-> kv]

RECURSIVE JSONstringify(_)
RECURSIVE StringifyMembers(_)
StringifyMembers(kv) ==
    IF kv = <<>> THEN <<>>
    ELSE <<"\"", kv[1][1], "\"", ":">> \o JSONstringify(kv[1][2])
         \o (IF Len(kv) > 1 THEN <<",">> ELSE <<>>)
         \o StringifyMembers(Tail(kv))

JSONstringify(v) ==
    IF v.t = "num" THEN <<v.d>>
    ELSE <<"{">> \o StringifyMembers(v.kv) \o <<"}">>

Digits == {"0", "1", "2"}
Letters == {"a", "b"}

\* Recursive-descent recognizer: ParseValue(s, i) is the position after the
\* JSON value that starts at s[i], or 0 when no value starts there.
RECURSIVE ParseValue(_, _)
RECURSIVE ParseMembers(_, _)
ParseMembers(s, i) ==
    IF i + 3 > Len(s) THEN 0
    ELSE IF s[i] = "\"" /\ s[i + 1] \in Letters /\ s[i + 2] = "\"" /\ s[i + 3] = ":"
         THEN LET j == ParseValue(s, i + 4)
              IN IF j = 0 \/ j > Len(s) THEN 0
                 ELSE IF s[j] = "}" THEN j + 1
                 ELSE IF s[j] = "," THEN ParseMembers(s, j + 1)
                 ELSE 0
         ELSE 0

ParseValue(s, i) ==
    IF i > Len(s) THEN 0
    ELSE IF s[i] \in Digits THEN i + 1
    ELSE IF s[i] = "{"
         THEN IF i + 1 <= Len(s) /\ s[i + 1] = "}" THEN i + 2
              ELSE ParseMembers(s, i + 1)
    ELSE 0

\* JSON.parse succeeds on s: exactly one value and nothing after it
JSONparses(s) == ParseValue(s, 1) = Len(s) + 1

\* ------------------------------------------------- normalized chunk stream
\* OpenAI.StreamDelta with the pass-through fields of the Gemini client
\* (_thought, _thoughtSignature, _thinkingStart, _thinkingEnd).
EmptyDelta ==
    [role |-> "undefined", content |-> None, tool_calls |-> None,
     thought |-> FALSE, thoughtSignature |-> SigNone,
     thinkingStart |-> FALSE, thinkingEnd |-> FALSE]

createOpenAIChunk(delta, finishReason) ==
    [delta |-> delta, finish_reason |-> finishReason, usage |-> None]

\* ------------------------------------------------------- upstream records
TextPart(text, thought, sig) ==
    [kind |-> "text", text |-> text, thought |-> thought,
     thoughtSignature |-> sig, name |-> "", args |-> JNum("0")]

FunctionCallPart(name, args, sig) ==
    [kind |-> "functionCall", text |-> EmptyStr, thought |-> FALSE,
     thoughtSignature |-> sig, name |-> name, args |-> args]

InlineDataPart ==
    [kind |-> "inlineData", text |-> EmptyStr, thought |-> FALSE,
     thoughtSignature |-> SigNone, name |-> "", args |-> JNum("0")]

ThoughtTexts == {EmptyStr, <<"t", "h">>}
PlainTexts == {EmptyStr, <<" ">>, <<"o", "k">>}
ThoughtSignatures == {SigNone, SigShort, SigA, SigB}
ToolSignatures == {SigNone, SigA}
ToolArgs == {JObj(<< <<"a", JNum("1")>> >>)}

Parts ==
    {TextPart(t, TRUE, s) : t \in ThoughtTexts, s \in ThoughtSignatures}
    \cup {TextPart(t, FALSE, SigNone) : t \in PlainTexts}
    \cup {FunctionCallPart("f", a, s) : a \in ToolArgs, s \in ToolSignatures}
    \cup {InlineDataPart}

UsageMetadatas == {None, Some([promptTokenCount |-> 7, candidatesTokenCount |-> 3])}
FinishReasons == {None, Some("STOP"), Some("MAX_TOKENS")}

\* ------------------------------------- GeminiApiClient.streamContentInternal
\* c packs the client field firstChunk, the generator's locals, the uuid
\* source and the chunks yielded so far (out).
Yield(c, chunk) == [c EXCEPT !.out = Append(@, chunk)]

\* if (this.firstChunk) { delta.role = "assistant"; this.firstChunk = false; }
TakeRole(c, delta) ==
    IF c.firstChunk
    THEN [c |-> [c EXCEPT !.firstChunk = FALSE],
          delta |-> [delta EXCEPT !.role = "assistant"]]
    ELSE [c |-> c, delta |-> delta]

closingDelta == [EmptyDelta EXCEPT !.content = Some(EmptyStr), !.thinkingEnd = TRUE]

\* if (thinkingInProgress) { yield closing chunk; thinkingInProgress = false; }
SignalThinkingEnd(c) ==
    IF c.thinkingInProgress
    THEN [Yield(c, createOpenAIChunk(closingDelta, "null"))
            EXCEPT !.thinkingInProgress = FALSE]
    ELSE c

HandleThoughtPart(c, part) ==
    LET d0 == [EmptyDelta EXCEPT !.content = Some(part.text),
                                 !.thought = TRUE,
                                 !.thoughtSignature = part.thoughtSignature]
        r == TakeRole(c, d0)
        d1 == IF ~r.c.thinkingInProgress
              THEN [r.delta EXCEPT !.thinkingStart = TRUE]
              ELSE r.delta
    IN Yield([r.c EXCEPT !.thinkingInProgress = TRUE],
             createOpenAIChunk(d1, "null"))

\* variant of HandleTextPart that yields nothing for a part with empty text
HandleTextPartSkipEmpty(c, part) ==
    LET c1 == SignalThinkingEnd(c)
        r == TakeRole(c1, [EmptyDelta EXCEPT !.content = Some(part.text)])
    IN IF part.text = EmptyStr THEN c1
       ELSE Yield(r.c, createOpenAIChunk(r.delta, "null"))

HandleTextPart(c, part) ==
    LET c1 == SignalThinkingEnd(c)
        r == TakeRole(c1, [EmptyDelta EXCEPT !.content = Some(part.text)])
    IN Yield(r.c, createOpenAIChunk(r.delta, "null"))

HandleFunctionCallPart(c, part) ==
    LET c1 == SignalThinkingEnd(c)
        id == c1.uuid + 1
        c2 == [c1 EXCEPT !.uuid = id, !.toolCallId = id]
        d0 == [EmptyDelta EXCEPT !.tool_calls =
                 Some(<< [index |-> 0, id |-> id,
                          name |-> part.name,
                          arguments |-> JSONstringify(part.args),
                          thoughtSignature |-> part.thoughtSignature] >>)]
        r == TakeRole(c2, d0)
    IN Yield(r.c, createOpenAIChunk(r.delta, "null"))

HandlePart(c, part) ==
    IF part.kind = "text"
    THEN IF part.thought = TRUE THEN HandleThoughtPart(c, part)
         ELSE HandleTextPart(c, part)
    ELSE IF part.kind = "functionCall" THEN HandleFunctionCallPart(c, part)
    ELSE c

\* if (jsonData.response?.usageMetadata) { usageData = {...} }
HandleUsageMetadata(c, usageMetadata) ==
    IF usageMetadata # None
    THEN [c EXCEPT !.usageData =
            Some([prompt_tokens |-> usageMetadata[1].promptTokenCount,
                  completion_tokens |-> usageMetadata[1].candidatesTokenCount,
                  total_tokens |-> usageMetadata[1].promptTokenCount
                                   + usageMetadata[1].candidatesTokenCount])]
    ELSE c

\* const fr = toolCallId ? "tool_calls" : "stop"; chunk.usage = usageData
TerminalChunk(c) ==
    [createOpenAIChunk(EmptyDelta,
                       IF c.toolCallId # 0 THEN "tool_calls" ELSE "stop")
       EXCEPT !.usage = c.usageData]

\* variant of HandleFinishReason that yields the terminal chunk and reads on
HandleFinishReasonNoReturn(c, finishReason) ==
    IF finishReason # None THEN Yield(c, TerminalChunk(c)) ELSE c

\* if (candidate?.finishReason) { yield terminal chunk; return; }
HandleFinishReason(c, finishReason) ==
    IF finishReason # None
    THEN [Yield(c, TerminalChunk(c)) EXCEPT !.status = "done"]
    ELSE c

\* the tail of one SSE record: usageMetadata, then finishReason
HandleRecordEnd(c, usageMetadata, finishReason) ==
    HandleFinishReason(HandleUsageMetadata(c, usageMetadata), finishReason)

\* the upstream closed without a finishReason
HandleStreamEnd(c) ==
    LET c1 == IF c.thinkingInProgress
              THEN Yield(c, createOpenAIChunk(closingDelta, "null"))
              ELSE c
    IN [Yield(c1, TerminalChunk(c1)) EXCEPT !.status = "done"]

\* ---------------------------------------------------------- signature cache
EmptyMap == [x \in {} |-> 0]

MapSet(m, k, v) == [x \in DOMAIN m \cup {k} |-> IF x = k THEN v ELSE m[x]]

\* model names that contain the substring "claude"
ClaudeModels == {"claude-3-5-sonnet-20241022"}

\* assertModelEnabled admits only names of SUPPORTED_MODELS
SUPPORTED_MODELS == {"gemini-2.5-pro"}

getModelFamily(model) == IF model \in ClaudeModels THEN "claude" ELSE "gemini"

\* st carries the emitter's locals together with the process-wide caches
cacheThinkingSignature(st, signature, modelFamily) ==
    IF signature = SigNone \/ signature.len < MIN_SIGNATURE_LENGTH THEN st
    ELSE [st EXCEPT
            !.thinkingSignatureCache = MapSet(@, modelFamily, signature),
            !.signatureFamilyMap = MapSet(@, signature, modelFamily)]

\* variant of cacheToolSignature that takes a signature of any length
cacheToolSignatureAnyLength(st, toolId, signature) ==
    IF signature = SigNone THEN st
    ELSE IF toolId = 0 THEN st
    ELSE [st EXCEPT !.toolSignatureCache = MapSet(@, toolId, signature)]

cacheToolSignature(st, toolId, signature) ==
    IF signature = SigNone \/ signature.len < MIN_SIGNATURE_LENGTH THEN st
    ELSE IF toolId = 0 THEN st
    ELSE [st EXCEPT !.toolSignatureCache = MapSet(@, toolId, signature)]

\* ------------------------------------------------- streamAnthropicResponse
Event(type) ==
    [type |-> type, index |-> -1, kind |-> "", text |-> EmptyStr,
     signature |-> SigNone, id |-> 0, name |-> "", stop_reason |-> "null",
     at |-> 0]

\* res.write of one SSE event; at records which chunk of the stream was being
\* handled (the number of chunks plus one for the code after the loop)
writeEvent(st, ev) == [st EXCEPT !.out = Append(@, [ev EXCEPT !.at = st.at])]

ContentBlockStart(st, kind) ==
    [Event("content_block_start") EXCEPT !.index = st.blockIndex, !.kind = kind]

ContentBlockDelta(st, kind, text) ==
    [Event("content_block_delta") EXCEPT !.index = st.blockIndex,
                                         !.kind = kind, !.text = text]

SignatureDelta(st) ==
    [Event("content_block_delta") EXCEPT !.index = st.blockIndex,
                                         !.kind = "signature_delta",
                                         !.signature = st.currentThinkingSignature]

\* variant of StopBlock that leaves blockIndex as it is
StopBlockNoBump(st) ==
    writeEvent(st, [Event("content_block_stop") EXCEPT !.index = st.blockIndex])

\* writeEvent("content_block_stop", {index: blockIndex}); blockIndex++;
StopBlock(st) ==
    [writeEvent(st, [Event("content_block_stop") EXCEPT !.index = st.blockIndex])
       EXCEPT !.blockIndex = @ + 1]

\* if (chunk.usage) { inputTokens = ... || inputTokens; outputTokens = ... }
ExtractUsage(st, chunk) ==
    IF chunk.usage # None
    THEN [st EXCEPT
            !.inputTokens = IF chunk.usage[1].prompt_tokens # 0
                            THEN chunk.usage[1].prompt_tokens ELSE @,
            !.outputTokens = IF chunk.usage[1].completion_tokens # 0
                             THEN chunk.usage[1].completion_tokens ELSE @]
    ELSE st

\* variant of EmitMessageStart that never sets hasEmittedStart
EmitMessageStartNoFlag(st, delta) ==
    IF ~st.hasEmittedStart /\ (TruthyStr(delta.content) \/ TruthyObj(delta.tool_calls))
    THEN writeEvent(st, Event("message_start"))
    ELSE st

\* if (!hasEmittedStart && (delta.content || delta.tool_calls)) { ... }
EmitMessageStart(st, delta) ==
    IF ~st.hasEmittedStart /\ (TruthyStr(delta.content) \/ TruthyObj(delta.tool_calls))
    THEN writeEvent([st EXCEPT !.hasEmittedStart = TRUE], Event("message_start"))
    ELSE st

\* if (isThinking && delta.content) { ... }
HandleThinking(st, delta) ==
    LET st1 == IF st.currentBlockType # "thinking"
               THEN LET a == IF st.currentBlockType # "null" THEN StopBlock(st) ELSE st
                        b == [a EXCEPT !.currentBlockType = "thinking",
                                       !.currentThinkingSignature = SigNone]
                    IN writeEvent(b, ContentBlockStart(b, "thinking"))
               ELSE st
        st2 == IF isValidSignature(delta.thoughtSignature)
               THEN cacheThinkingSignature(
                        [st1 EXCEPT !.currentThinkingSignature = delta.thoughtSignature],
                        delta.thoughtSignature, st1.modelFamily)
               ELSE st1
    IN writeEvent(st2, ContentBlockDelta(st2, "thinking_delta", delta.content[1]))

\* else if (isThinkingEnd) { ... }
HandleThinkingEnd(st) ==
    LET st1 == IF st.currentBlockType = "thinking"
                  /\ st.currentThinkingSignature # SigNone
               THEN [writeEvent(st, SignatureDelta(st))
                       EXCEPT !.currentThinkingSignature = SigNone]
               ELSE st
        st2 == IF st1.currentBlockType # "null" THEN StopBlock(st1) ELSE st1
    IN [st2 EXCEPT !.currentBlockType = "null"]

\* else if (delta.content && !isThinking) { ... } past the empty-content skip
HandleText(st, delta) ==
    LET st1 == IF st.currentBlockType = "thinking"
               THEN LET a == IF st.currentThinkingSignature # SigNone
                             THEN [writeEvent(st, SignatureDelta(st))
                                     EXCEPT !.currentThinkingSignature = SigNone]
                             ELSE st
                    IN StopBlock(a)
               ELSE st
        st2 == IF st1.currentBlockType # "text"
               THEN LET b == [st1 EXCEPT !.currentBlockType = "text"]
                    IN writeEvent(b, ContentBlockStart(b, "text"))
               ELSE st1
        st3 == [st2 EXCEPT !.totalContent = @ \o delta.content[1]]
    IN writeEvent(st3, ContentBlockDelta(st3, "text_delta", delta.content[1]))

\* variant of EmitToolUse that caches the signature and leaves it off the block
EmitToolUseUnsigned(st, toolCall) ==
    LET minted == toolCall.id = 0
        toolId == IF minted THEN -(st.randomBytes + 1) ELSE toolCall.id
        st0 == IF minted THEN [st EXCEPT !.randomBytes = @ + 1] ELSE st
        toolSignature == toolCall.thoughtSignature
        valid == isValidSignature(toolSignature)
        st1 == IF valid THEN cacheToolSignature(st0, toolId, toolSignature) ELSE st0
        st2 == writeEvent(st1,
                 [ContentBlockStart(st1, "tool_use") EXCEPT
                    !.id = toolId, !.name = toolCall.name])
        st3 == IF toolCall.arguments # EmptyStr
               THEN writeEvent(st2, ContentBlockDelta(st2, "input_json_delta",
                                                      toolCall.arguments))
               ELSE st2
    IN StopBlock(st3)

\* one iteration of for (const toolCall of delta.tool_calls)
EmitToolUse(st, toolCall) ==
    LET minted == toolCall.id = 0
        toolId == IF minted THEN -(st.randomBytes + 1) ELSE toolCall.id
        st0 == IF minted THEN [st EXCEPT !.randomBytes = @ + 1] ELSE st
        toolSignature == toolCall.thoughtSignature
        valid == isValidSignature(toolSignature)
        st1 == IF valid THEN cacheToolSignature(st0, toolId, toolSignature) ELSE st0
        st2 == writeEvent(st1,
                 [ContentBlockStart(st1, "tool_use") EXCEPT
                    !.id = toolId, !.name = toolCall.name,
                    !.signature = IF valid THEN toolSignature ELSE SigNone])
        st3 == IF toolCall.arguments # EmptyStr
               THEN writeEvent(st2, ContentBlockDelta(st2, "input_json_delta",
                                                      toolCall.arguments))
               ELSE st2
    IN StopBlock(st3)

RECURSIVE EmitToolUses(_, _)
EmitToolUses(st, toolCalls) ==
    IF toolCalls = <<>> THEN st
    ELSE EmitToolUses(EmitToolUse(st, Head(toolCalls)), Tail(toolCalls))

\* if (delta.tool_calls) { ... }
HandleToolCalls(st, delta) ==
    IF TruthyObj(delta.tool_calls)
    THEN LET st0 == [st EXCEPT !.stopReason = "tool_use"]
             st1 == IF st0.currentBlockType = "thinking"
                       /\ st0.currentThinkingSignature # SigNone
                    THEN [writeEvent(st0, SignatureDelta(st0))
                            EXCEPT !.currentThinkingSignature = SigNone]
                    ELSE st0
             st2 == IF st1.currentBlockType # "null" THEN StopBlock(st1) ELSE st1
             st3 == EmitToolUses([st2 EXCEPT !.currentBlockType = "tool_use"],
                                 delta.tool_calls[1])
         IN [st3 EXCEPT !.currentBlockType = "null"]
    ELSE st

\* if (chunk.choices?.[0]?.finish_reason) { ... }
CheckFinishReason(st, chunk) ==
    IF chunk.finish_reason = "tool_calls" THEN [st EXCEPT !.stopReason = "tool_use"]
    ELSE IF chunk.finish_reason = "length" THEN [st EXCEPT !.stopReason = "max_tokens"]
    ELSE st

\* the body of for await (const chunk of geminiStream)
HandleChunk(st, chunk) ==
    LET delta == chunk.delta
        isThinking == delta.thought = TRUE
        isThinkingEnd == delta.thinkingEnd = TRUE
        st1 == EmitMessageStart(ExtractUsage(st, chunk), delta)
    IN IF isThinking /\ TruthyStr(delta.content)
       THEN CheckFinishReason(HandleToolCalls(HandleThinking(st1, delta), delta), chunk)
       ELSE IF isThinkingEnd
       THEN CheckFinishReason(HandleToolCalls(HandleThinkingEnd(st1), delta), chunk)
       ELSE IF TruthyStr(delta.content) /\ ~isThinking
       THEN IF Trim(delta.content[1]) = EmptyStr
            THEN st1   \* continue
            ELSE CheckFinishReason(HandleToolCalls(HandleText(st1, delta), delta), chunk)
       ELSE CheckFinishReason(HandleToolCalls(st1, delta), chunk)

\* "[No response received - please try again]"
NoResponseText ==
    <<"[", "N", "o", " ", "r", "e", "s", "p", "o", "n", "s", "e", " ", "r",
      "e", "c", "e", "i", "v", "e", "d", " ", "-", " ", "p", "l", "e", "a",
      "s", "e", " ", "t", "r", "y", " ", "a", "g", "a", "i", "n", "]">>

\* if (!hasEmittedStart) { placeholder block }
EmitNoContent(st) ==
    LET a == writeEvent(st, Event("message_start"))
        b == writeEvent(a, [Event("content_block_start") EXCEPT !.index = 0, !.kind = "text"])
        c == writeEvent(b, [Event("content_block_delta") EXCEPT
                              !.index = 0, !.kind = "text_delta", !.text = NoResponseText])
    IN writeEvent(c, [Event("content_block_stop") EXCEPT !.index = 0])

\* else { close any open block }
CloseOpenBlock(st) ==
    IF st.currentBlockType # "null"
    THEN LET a == IF st.currentBlockType = "thinking"
                     /\ st.currentThinkingSignature # SigNone
                  THEN writeEvent(st, SignatureDelta(st))
                  ELSE st
         IN writeEvent(a, [Event("content_block_stop") EXCEPT !.index = a.blockIndex])
    ELSE st

\* everything after the for-await loop: the last block, message_delta, message_stop
FinishStream(st) ==
    LET a == IF ~st.hasEmittedStart THEN EmitNoContent(st) ELSE CloseOpenBlock(st)
        b == writeEvent(a, [Event("message_delta") EXCEPT !.stop_reason = a.stopReason])
    IN [writeEvent(b, Event("message_stop")) EXCEPT !.ended = TRUE]

\* ------------------------------------------------------------ getCompletion
RECURSIVE ConcatContent(_)
ConcatContent(cs) ==
    IF cs = <<>> THEN EmptyStr
    ELSE (IF TruthyStr(Head(cs).delta.content) THEN Head(cs).delta.content[1]
          ELSE EmptyStr) \o ConcatContent(Tail(cs))

RECURSIVE ConcatToolCalls(_)
ConcatToolCalls(cs) ==
    IF cs = <<>> THEN <<>>
    ELSE (IF TruthyObj(Head(cs).delta.tool_calls) THEN Head(cs).delta.tool_calls[1]
          ELSE <<>>) \o ConcatToolCalls(Tail(cs))

RECURSIVE LastUsage(_)
LastUsage(cs) ==
    IF cs = <<>> THEN None
    ELSE IF cs[Len(cs)].usage # None
         THEN Some([inputTokens |-> cs[Len(cs)].usage[1].prompt_tokens,
                    outputTokens |-> cs[Len(cs)].usage[1].completion_tokens])
         ELSE LastUsage(SubSeq(cs, 1, Len(cs) - 1))

getCompletion(cs) ==
    [content |-> ConcatContent(cs),
     tool_calls |-> IF Len(ConcatToolCalls(cs)) > 0 THEN Some(ConcatToolCalls(cs))
                    ELSE None,
     usage |-> LastUsage(cs)]

\* --------------------------------------------- mapGeminiResponseToAnthropic
ContentBlock(type) ==
    [type |-> type, text |-> EmptyStr, id |-> 0, name |-> "", input |-> EmptyStr]

\* input holds the arguments string handed to JSON.parse
ToolUseBlocks(toolCalls) ==
    [i \in 1..Len(toolCalls) |->
        [ContentBlock("tool_use") EXCEPT !.id = toolCalls[i].id,
                                         !.name = toolCalls[i].name,
                                         !.input = toolCalls[i].arguments]]

\* variant of NonStreamStopReason that ignores the tool calls
NonStreamStopReasonEndTurn(geminiResponse) == "end_turn"

\* stop_reason: (geminiResponse.tool_calls?.length ?? 0) > 0 ? "tool_use" : "end_turn"
NonStreamStopReason(geminiResponse) ==
    IF (IF geminiResponse.tool_calls # None THEN Len(geminiResponse.tool_calls[1])
        ELSE 0) > 0
    THEN "tool_use" ELSE "end_turn"

mapGeminiResponseToAnthropic(geminiResponse) ==
    [content |->
        (IF geminiResponse.content # EmptyStr
         THEN <<[ContentBlock("text") EXCEPT !.text = geminiResponse.content]>>
         ELSE <<>>)
        \o (IF geminiResponse.tool_calls # None
            THEN ToolUseBlocks(geminiResponse.tool_calls[1]) ELSE <<>>),
     stop_reason |-> NonStreamStopReason(geminiResponse),
     input_tokens |-> IF geminiResponse.usage # None
                      THEN geminiResponse.usage[1].inputTokens ELSE 0,
     output_tokens |-> IF geminiResponse.usage # None
                       THEN geminiResponse.usage[1].outputTokens ELSE 0]

\* ------------------------------------------- POST /responses (streaming)
\* One Responses SSE event; item is the event's item (or, for the content
\* part events, its part) and output the output array of response.completed.
ResponseEvent(type) ==
    [type |-> type, output_index |-> -1, item |-> None, delta |-> EmptyStr,
     text |-> EmptyStr, output |-> <<>>]

\* res.write of one Responses event
sendEvent(st, ev) == [st EXCEPT !.out = Append(@, ev)]

MessageItem(id, status, text) ==
    [type |-> "message", id |-> id, call_id |-> 0, name |-> "",
     arguments |-> EmptyStr, status |-> status, text |-> text]

FunctionCallItem(id, callId, name, arguments, status) ==
    [type |-> "function_call", id |-> id, call_id |-> callId, name |-> name,
     arguments |-> arguments, status |-> status, text |-> EmptyStr]

\* output_text.done, content_part.done and output_item.done of the message
\* item, all with output_index 0
CloseMessageItem(st) ==
    LET a == sendEvent(st, [ResponseEvent("response.output_text.done") EXCEPT
                              !.output_index = 0, !.text = st.accumulatedText])
        b == sendEvent(a, [ResponseEvent("response.content_part.done") EXCEPT
                             !.output_index = 0, !.text = st.accumulatedText])
    IN sendEvent(b, [ResponseEvent("response.output_item.done") EXCEPT
                       !.output_index = 0,
                       !.item = Some(MessageItem(st.messageItemId, "completed",
                                                 st.accumulatedText))])

\* if (delta.content && !delta._thought) { ... }
ResponsesText(st, delta) ==
    IF TruthyStr(delta.content) /\ ~delta.thought
    THEN LET a == IF ~st.messageItemEmitted
                  THEN LET id == st.randomUUID + 1
                           o == sendEvent(
                                  [st EXCEPT !.randomUUID = id, !.messageItemId = id],
                                  [ResponseEvent("response.output_item.added") EXCEPT
                                     !.output_index = st.outputIndex,
                                     !.item = Some(MessageItem(id, "in_progress",
                                                               EmptyStr))])
                           q == sendEvent(o,
                                  [ResponseEvent("response.content_part.added") EXCEPT
                                     !.output_index = st.outputIndex])
                       IN [q EXCEPT !.messageItemEmitted = TRUE]
                  ELSE st
             b == [a EXCEPT !.accumulatedText = @ \o delta.content[1]]
         IN sendEvent(b, [ResponseEvent("response.output_text.delta") EXCEPT
                            !.output_index = IF b.messageItemEmitted THEN 0
                                             ELSE b.outputIndex,
                            !.delta = delta.content[1]])
    ELSE st

\* toolCallItems is a Map: its entries in insertion order, each with its key
HasToolCallItem(st, tcIdx) ==
    \E i \in 1..Len(st.toolCallItems) : st.toolCallItems[i].key = tcIdx

ToolCallItemAt(st, tcIdx) ==
    CHOOSE i \in 1..Len(st.toolCallItems) : st.toolCallItems[i].key = tcIdx

\* if (!toolCallItems.has(tcIdx)) { close the message item; open a new item }
OpenToolCallItem(st, tc) ==
    IF ~HasToolCallItem(st, tc.index)
    THEN LET a == IF st.messageItemEmitted /\ Len(st.toolCallItems) = 0
                  THEN [CloseMessageItem(st) EXCEPT !.outputIndex = @ + 1]
                  ELSE st
             itemId == a.randomUUID + 1
             minted == tc.id = 0
             callId == IF minted THEN -(itemId + 1) ELSE tc.id
             b == [a EXCEPT !.randomUUID = IF minted THEN itemId + 1 ELSE itemId]
             currentOutputIndex == b.outputIndex
             c == [b EXCEPT !.toolCallItems =
                     Append(@, [key |-> tc.index, outputIndex |-> currentOutputIndex,
                                itemId |-> itemId, callId |-> callId,
                                name |-> tc.name, args |-> EmptyStr])]
             d == sendEvent(c, [ResponseEvent("response.output_item.added") EXCEPT
                                  !.output_index = currentOutputIndex,
                                  !.item = Some(FunctionCallItem(itemId, callId, tc.name,
                                                                 EmptyStr, "in_progress"))])
         IN [d EXCEPT !.outputIndex = @ + 1]
    ELSE st

\* one iteration of for (const tc of delta.tool_calls)
ResponsesToolCall(st, tc) ==
    LET a == OpenToolCallItem(st, tc)
        i == ToolCallItemAt(a, tc.index)
        b == IF tc.arguments # EmptyStr
             THEN sendEvent([a EXCEPT !.toolCallItems[i].args = @ \o tc.arguments],
                            [ResponseEvent("response.function_call_arguments.delta") EXCEPT
                               !.output_index = a.toolCallItems[i].outputIndex,
                               !.delta = tc.arguments])
             ELSE a
        c == IF tc.name # "" THEN [b EXCEPT !.toolCallItems[i].name = tc.name] ELSE b
    IN IF tc.thoughtSignature # SigNone /\ c.toolCallItems[i].callId # 0
       THEN cacheToolSignature(c, c.toolCallItems[i].callId, tc.thoughtSignature)
       ELSE c

RECURSIVE ResponsesToolCalls(_, _)
ResponsesToolCalls(st, toolCalls) ==
    IF toolCalls = <<>> THEN st
    ELSE ResponsesToolCalls(ResponsesToolCall(st, Head(toolCalls)), Tail(toolCalls))

\* the body of for await (const chunk of geminiStream) of POST /responses
ResponsesChunkBody(st, chunk) ==
    LET delta == chunk.delta
        a == IF delta.thoughtSignature # SigNone
                /\ delta.thoughtSignature.len >= 100
             THEN cacheThinkingSignature(st, delta.thoughtSignature, "gemini")
             ELSE st
        b == ResponsesText(a, delta)
    IN IF TruthyObj(delta.tool_calls) THEN ResponsesToolCalls(b, delta.tool_calls[1])
       ELSE b

\* for (const [, tracked] of toolCallItems) { arguments.done; output_item.done }
RECURSIVE CloseToolCallItems(_, _)
CloseToolCallItems(st, items) ==
    IF items = <<>> THEN st
    ELSE LET tracked == Head(items)
             a == sendEvent(st,
                    [ResponseEvent("response.function_call_arguments.done") EXCEPT
                       !.output_index = tracked.outputIndex, !.text = tracked.args])
             b == sendEvent(a,
                    [ResponseEvent("response.output_item.done") EXCEPT
                       !.output_index = tracked.outputIndex,
                       !.item = Some(FunctionCallItem(tracked.itemId, tracked.callId,
                                                      tracked.name, tracked.args,
                                                      "completed"))])
         IN CloseToolCallItems(b, Tail(items))

\* the message item, if any, then the tool call items in insertion order
finalOutput(st) ==
    (IF st.messageItemEmitted
     THEN <<MessageItem(st.messageItemId, "completed", st.accumulatedText)>>
     ELSE <<>>)
    \o [i \in 1..Len(st.toolCallItems) |->
          FunctionCallItem(st.toolCallItems[i].itemId, st.toolCallItems[i].callId,
                           st.toolCallItems[i].name, st.toolCallItems[i].args,
                           "completed")]

\* everything after the loop: close the open items, response.completed, res.end()
ResponsesFinish(st) ==
    LET a == IF st.messageItemEmitted /\ Len(st.toolCallItems) = 0
             THEN CloseMessageItem(st) ELSE st
        b == CloseToolCallItems(a, a.toolCallItems)
        c == sendEvent(b, [ResponseEvent("response.completed") EXCEPT
                             !.output = finalOutput(b)])
    IN [c EXCEPT !.ended = TRUE]

\* response.created and response.in_progress, then the state tracking locals
NewResponses ==
    [messageItemEmitted |-> FALSE, messageItemId |-> 0, accumulatedText |-> EmptyStr,
     outputIndex |-> 0, toolCallItems |-> <<>>, randomUUID |-> 0,
     out |-> <<ResponseEvent("response.created"),
               ResponseEvent("response.in_progress")>>,
     ended |-> FALSE]

\* ------------------------------------- POST /chat/completions (streaming)
\* o packs the TransformStream (the chunk held by the writable side until the
\* transform runs, the queue of the readable side, the close request), the
\* producer task's position and what the consumer loop wrote to res.
DoneEvent == [done |-> TRUE, value |-> None]

DataEvent(chunk) == [done |-> FALSE, value |-> Some(chunk)]

NewOpenAI ==
    [pc |-> "next", writable |-> <<>>, readable |-> <<>>, state |-> "readable",
     reason |-> None, out |-> <<>>, ended |-> FALSE]

\* for (const tc of delta.tool_calls) if (sig && tc.id) cacheToolSignature(tc.id, sig)
RECURSIVE CacheToolSignatures(_, _)
CacheToolSignatures(st, toolCalls) ==
    IF toolCalls = <<>> THEN st
    ELSE LET tc == Head(toolCalls)
         IN CacheToolSignatures(
                IF tc.thoughtSignature # SigNone /\ tc.id # 0
                THEN cacheToolSignature(st, tc.id, tc.thoughtSignature) ELSE st,
                Tail(toolCalls))

\* writer.write(chunk): the chunk waits in the writable side
writerWrite(o, chunk) == [o EXCEPT !.writable = <<chunk>>, !.pc = "write"]

\* the identity transform moves the chunk to the readable side and the
\* promise of writer.write resolves
transform(o) ==
    [o EXCEPT !.readable = Append(@, Head(o.writable)), !.writable = <<>>,
              !.pc = "next"]

\* writer.close(): the readable side closes once its queue is drained
writerClose(o) == [o EXCEPT !.state = "closed", !.pc = "finished"]

\* variant of readerRead that leaves the chunk in the queue
readerReadKeep(o) ==
    [o EXCEPT !.out = Append(@, DataEvent(Head(o.readable)))]

\* const {done, value} = await reader.read(); res.write(`data: ${...}\n\n`)
readerRead(o) ==
    [o EXCEPT !.out = Append(@, DataEvent(Head(o.readable))),
              !.readable = Tail(@)]

\* if (done) { res.write("data: [DONE]\n\n"); res.end(); break; }
readerDone(o) == [o EXCEPT !.out = Append(@, DoneEvent), !.ended = TRUE]

\* ------------------------------------------------- AutoModelSwitchingHelper
RATE_LIMIT_STATUS_CODES == {429, 503}

\* the map has no entries
AUTO_SWITCH_MODEL_MAP == EmptyMap

\* table is the value of AUTO_SWITCH_MODEL_MAP
getFallbackModel(table, model) ==
    IF model \in DOMAIN table THEN Some(table[model]) ELSE None

isRateLimitError(statusCode) == statusCode \in RATE_LIMIT_STATUS_CODES

\* cs is cooldownState: model -> [rateLimitedAt, statusCodes]; t is Date.now()
addRateLimitedModel(cs, model, statusCode, t) ==
    IF model \notin DOMAIN cs
    THEN MapSet(cs, model, [rateLimitedAt |-> t, statusCodes |-> <<statusCode>>])
    ELSE [cs EXCEPT ![model] =
            [rateLimitedAt |-> t,
             statusCodes |-> IF \E i \in 1..Len(@.statusCodes) : @.statusCodes[i] = statusCode
                             THEN @.statusCodes ELSE Append(@.statusCodes, statusCode)]]

\* variant of CooldownElapsed that still counts the last millisecond as cooldown
CooldownElapsedInclusive(entry, t) ==
    ~((t - entry.rateLimitedAt) <= DEFAULT_COOLDOWN_MINUTES * 60 * 1000)

\* !((now - modelState.rateLimitedAt) < cooldownDuration)
CooldownElapsed(entry, t) ==
    ~((t - entry.rateLimitedAt) < DEFAULT_COOLDOWN_MINUTES * 60 * 1000)

\* the value returned, and cooldownState after the clean-up of an expired entry
isModelInCooldown(cs, model, t) ==
    IF model \notin DOMAIN cs THEN [result |-> FALSE, cooldownState |-> cs]
    ELSE IF CooldownElapsed(cs[model], t)
         THEN [result |-> FALSE,
               cooldownState |-> [m \in DOMAIN cs \ {model} |-> cs[m]]]
         ELSE [result |-> TRUE, cooldownState |-> cs]

\* variant of shouldAttemptFallback that does not ask for the cooldown
shouldAttemptFallbackCooling(table, cs, model, t) ==
    [result |-> getFallbackModel(table, model) # None, cooldownState |-> cs]

shouldAttemptFallback(table, cs, model, t) ==
    LET r == isModelInCooldown(cs, model, t)
    IN [result |-> IF r.result THEN FALSE
                   ELSE getFallbackModel(table, model) # None,
        cooldownState |-> r.cooldownState]

\* the while loop of getBestAvailableModel at the instant t, for at most fuel
\* more fallbacks: whether it ends, the model it ends on, and cooldownState
RECURSIVE WalkFallbackChain(_, _, _, _, _)
WalkFallbackChain(table, cs, currentModel, t, fuel) ==
    LET r == isModelInCooldown(cs, currentModel, t)
        fallback == getFallbackModel(table, currentModel)
    IN IF ~r.result \/ fallback = None
       THEN [returns |-> TRUE, model |-> currentModel,
             cooldownState |-> r.cooldownState]
       ELSE IF fuel = 0
            THEN [returns |-> FALSE, model |-> currentModel,
                  cooldownState |-> r.cooldownState]
            ELSE WalkFallbackChain(table, r.cooldownState, fallback[1], t, fuel - 1)

\* the models the loop reaches from a model by one fallback or more
RECURSIVE FallbacksOf(_, _, _)
FallbacksOf(table, model, fuel) ==
    IF fuel = 0 \/ model \notin DOMAIN table THEN {}
    ELSE {table[model]} \cup FallbacksOf(table, table[model], fuel - 1)

\* the instant at which isModelInCooldown(model) turns false
CooldownEnd(cs, model) ==
    cs[model].rateLimitedAt + DEFAULT_COOLDOWN_MINUTES * 60 * 1000

\* ------------------------------------------------------------- upstream errors
NoEstimate == [n |-> 0, unit |-> ""]

GeminiApiError(text, humanReadable, statusCode) ==
    [name |-> "GeminiApiError",
     message |-> [text |-> text, humanReadable |-> humanReadable],
     statusCode |-> statusCode]

Ceil(a, b) == (a + b - 1) \div b

\* the retry-after header in seconds, and the match of the quota-reset pattern
\* in the error body
RetryAfters == {None, Some(30)}
ResetMatches == {None, Some([value |-> 2, unit |-> "minutes"])}

\* catch of streamContentInternal, err.response?.status === 429
RateLimitError(retryAfter, resetMatch) ==
    LET byHeader == IF retryAfter # None THEN retryAfter[1] * 1000 ELSE 60000
        resetMs == IF resetMatch = None THEN byHeader
                   ELSE IF resetMatch[1].unit \in {"minute", "minutes"}
                        THEN resetMatch[1].value * 60 * 1000
                   ELSE IF resetMatch[1].unit \in {"hour", "hours"}
                        THEN resetMatch[1].value * 60 * 60 * 1000
                   ELSE resetMatch[1].value * 1000
        humanReadable == IF resetMs >= 60000
                         THEN [n |-> Ceil(resetMs, 60000), unit |-> "minute(s)"]
                         ELSE [n |-> Ceil(resetMs, 1000), unit |-> "second(s)"]
    IN GeminiApiError("RESOURCE_EXHAUSTED: Rate limited", humanReadable, 429)

\* catch of streamContentInternal for any other failure
StreamRequestFailed(statusCode) ==
    GeminiApiError("Stream request failed", NoEstimate, statusCode)

\* what the catch of streamContentInternal throws for a failure with the
\* given err.response?.status (0: no response, a broken connection)
ClientError(status, retryAfter, resetMatch) ==
    IF status = 429 THEN RateLimitError(retryAfter, resetMatch)
    ELSE StreamRequestFailed(IF status # 0 THEN status ELSE 500)

\* ------------------------------------------------------------ HTTP exchange
Message(text) == [text |-> text, humanReadable |-> NoEstimate]

NoCall ==
    [dialect |-> "none", stream |-> FALSE,
     body |-> [messages |-> "present", max_tokens |-> TRUE, input |-> TRUE],
     allowed |-> TRUE, model |-> "gemini-2.5-pro",
     discoverProjectId |-> 0, streamGenerateContent |-> 0, disconnectedAt |-> -1]

\* statusCode 0: res.status was not called
NewRes == [statusCode |-> 0, body |-> None, errorEvent |-> None, ended |-> FALSE]

\* res.status(statusCode).json({type: "error", error: {type, message}})
AnthropicErrorBody(r, statusCode, type, message) ==
    [r EXCEPT !.statusCode = statusCode,
              !.body = Some([shape |-> "anthropic", type |-> type, message |-> message]),
              !.ended = TRUE]

\* res.status(statusCode).json({error: message})
PlainErrorBody(r, statusCode, message) ==
    [r EXCEPT !.statusCode = statusCode,
              !.body = Some([shape |-> "plain", type |-> "", message |-> message]),
              !.ended = TRUE]

\* request bodies: messages missing, an empty array or a non-empty one;
\* max_tokens and input present or not
Bodies ==
    [messages : {"missing", "empty", "present"}, max_tokens : BOOLEAN,
     input : BOOLEAN]

\* POST /v1/messages up to discoverProjectId: the response of a request that is
\* turned away, or None
AnthropicValidation(r, body, allowed) ==
    IF ~allowed
    THEN Some(AnthropicErrorBody(r, 403, "permission_error", Message("model disabled")))
    ELSE IF body.messages \in {"missing", "empty"}
    THEN Some(AnthropicErrorBody(r, 400, "invalid_request_error",
                                 Message("messages is required and cannot be empty")))
    ELSE IF ~body.max_tokens
    THEN Some(AnthropicErrorBody(r, 400, "invalid_request_error",
                                 Message("max_tokens is required")))
    ELSE None

\* POST /chat/completions: body.messages.length of a missing messages throws a
\* TypeError, caught by the outer catch (headers not sent)
ChatCompletionsValidation(r, body) ==
    IF body.messages = "missing"
    THEN Some(PlainErrorBody(r, 500, Message("Cannot read properties of undefined")))
    ELSE IF body.messages = "empty"
    THEN Some(PlainErrorBody(r, 400, Message("messages is a required field")))
    ELSE None

\* POST /responses: if (!body.input)
ResponsesValidation(r, body) ==
    IF ~body.input
    THEN Some(PlainErrorBody(r, 400, Message("input is a required field")))
    ELSE None

Validation(dialect, r, body, allowed) ==
    IF dialect = "anthropic" THEN AnthropicValidation(r, body, allowed)
    ELSE IF dialect = "openai" THEN ChatCompletionsValidation(r, body)
    ELSE ResponsesValidation(r, body)

\* the position of the handler once the request is accepted
ModeOf(dialect, stream) ==
    IF dialect = "anthropic" THEN (IF stream THEN "stream" ELSE "nonstream")
    ELSE IF dialect = "openai" THEN (IF stream THEN "openai" ELSE "openai-nonstream")
    ELSE (IF stream THEN "responses" ELSE "responses-nonstream")

\* catch of the streaming branch of POST /v1/messages
AnthropicStreamCatch(r, headersSent, error) ==
    IF ~headersSent
    THEN LET isRateLimit == error.name = "GeminiApiError" /\ error.statusCode = 429
         IN AnthropicErrorBody(r, IF isRateLimit THEN 400 ELSE 500,
                               IF isRateLimit THEN "invalid_request_error"
                               ELSE "api_error",
                               error.message)
    ELSE [r EXCEPT !.errorEvent = Some([shape |-> "anthropic", type |-> "api_error",
                                        message |-> error.message]),
                   !.ended = TRUE]

\* catch of the non-streaming branch of POST /v1/messages
AnthropicMessageCatch(r, error) ==
    LET isRateLimit == error.name = "GeminiApiError" /\ error.statusCode = 429
    IN AnthropicErrorBody(r, IF isRateLimit THEN 400 ELSE 500,
                          IF isRateLimit THEN "invalid_request_error" ELSE "api_error",
                          error.message)

\* catch of the producer task: writer.abort(errorMessage) errors the readable
\* side with the message, a string, and drops what is queued
writerAbort(o, error) ==
    [o EXCEPT !.state = "errored", !.reason = Some(error.message),
              !.writable = <<>>, !.readable = <<>>, !.pc = "finished"]

\* outer catch of POST /chat/completions and of POST /responses; the rejection
\* of reader.read() carries a string, which is not an instance of Error
OuterCatch(r, headersSent, isError, error) ==
    IF ~headersSent
    THEN PlainErrorBody(r, 500, IF isError THEN error.message
                                ELSE Message("An unknown error occurred"))
    ELSE [r EXCEPT !.ended = TRUE]

\* catch (streamError) of the streaming branch of POST /responses
ResponsesStreamCatch(r, headersSent, error) ==
    IF ~headersSent THEN PlainErrorBody(r, 500, error.message)
    ELSE [r EXCEPT !.ended = TRUE]

\* catch (completionError) of the two non-streaming branches of the OpenAI router
CompletionCatch(r, error) == PlainErrorBody(r, 500, error.message)

\* res.json(response) of the non-streaming POST /chat/completions
ChatCompletionResponse(r, completion) ==
    [r EXCEPT !.body =
        Some([shape |-> "chat.completion", content |-> completion.content,
              tool_calls |-> completion.tool_calls,
              finish_reason |-> IF completion.tool_calls # None
                                   /\ Len(completion.tool_calls[1]) > 0
                                THEN "tool_calls" ELSE "stop",
              usage |-> completion.usage]),
        !.ended = TRUE]

\* res.json(buildResponseObject(body.model, completion))
buildResponseObject(r, completion) ==
    [r EXCEPT !.body =
        Some([shape |-> "response",
              output |->
                (IF completion.content # EmptyStr
                 THEN <<MessageItem(1, "completed", completion.content)>> ELSE <<>>)
                \o (IF completion.tool_calls # None
                    THEN [i \in 1..Len(completion.tool_calls[1]) |->
                            FunctionCallItem(i + 1, completion.tool_calls[1][i].id,
                                             completion.tool_calls[1][i].name,
                                             completion.tool_calls[1][i].arguments,
                                             "completed")]
                    ELSE <<>>),
              usage |-> completion.usage]),
        !.ended = TRUE]

\* =================================================================== state
VARIABLES
    firstChunk,              \* GeminiApiClient.firstChunk
    gen,                     \* locals of the running streamContentInternal
    chunks,                  \* chunks yielded for the current response
    uuid,                    \* crypto.randomUUID() draws so far
    upstream,                \* what the upstream sent for the current response
    request,                 \* the request being served
    consumed,                \* chunks the for-await loop has taken
    emitter,                 \* locals of streamAnthropicResponse and its output
    response,                \* the non-streamed Anthropic message
    thinkingSignatureCache,  \* signature-cache.ts maps
    toolSignatureCache,
    signatureFamilyMap,
    partsRead,               \* upstream parts read so far
    responses,               \* locals of the POST /responses stream and its output
    openai,                  \* TransformStream, producer and consumer of /chat/completions
    call,                    \* the request as received and the upstream calls made for it
    res,                     \* the Express response: status, body, error event, end
    thrown,                  \* the error thrown by streamContent, if any
    cooldownState,           \* AutoModelSwitchingHelper.cooldownState
    now,                     \* Date.now()
    observed,                \* model -> time of its last addRateLimitedModel
    fallbackTable,           \* the table AUTO_SWITCH_MODEL_MAP holds
    dispatch,                \* the upstream call streamContent is waiting for
    retried,                 \* the last call of a retryFunction
    argument,                \* the argument a mapper is called with
    result,                  \* the value the mapper returned
    switching,               \* the frames of one getCompletion or streamContent call
    restart,                 \* one streamContentInternal call and its 401 restart
    discovery                \* one discoverProjectId call and the client's projectId

vars ==
    <<firstChunk, gen, chunks, uuid, upstream, request, consumed, emitter,
      response, thinkingSignatureCache, toolSignatureCache, signatureFamilyMap,
      partsRead, responses, openai, call, res, thrown, cooldownState, now, observed,
      fallbackTable, dispatch, retried, argument, result, switching, restart,
      discovery>>

\* the calls of the client that are followed on their own
laterVars == <<switching, restart, discovery>>

\* the fallback controller's table and calls, and the mappers' calls
extraVars == <<fallbackTable, dispatch, retried, argument, result, laterVars>>

\* the state of the OpenAI router's handlers
callVars == <<call, res, thrown, cooldownState, now, observed, extraVars>>

routerVars == <<responses, openai, callVars>>

NewGen ==
    [toolCallId |-> 0, usageData |-> None, thinkingInProgress |-> FALSE,
     status |-> "idle"]

\* parts holds the text and functionCall parts of candidates[0] received so far
NewUpstream ==
    [finishReason |-> None, functionCalls |-> 0, closed |-> FALSE, parts |-> <<>>]

NewEmitter(modelFamily) ==
    [hasEmittedStart |-> FALSE, blockIndex |-> 0, currentBlockType |-> "null",
     currentThinkingSignature |-> SigNone, inputTokens |-> 0, outputTokens |-> 0,
     stopReason |-> "end_turn", totalContent |-> EmptyStr,
     modelFamily |-> modelFamily, randomBytes |-> 0, out |-> <<>>, ended |-> FALSE]

InitProgram ==
    /\ firstChunk = TRUE
    /\ gen = NewGen
    /\ chunks = <<>>
    /\ uuid = 0
    /\ upstream = NewUpstream
    /\ request = [no |-> 0, mode |-> "none"]
    /\ consumed = 0
    /\ emitter = NewEmitter("gemini")
    /\ response = None
    /\ thinkingSignatureCache = EmptyMap
    /\ toolSignatureCache = EmptyMap
    /\ signatureFamilyMap = EmptyMap
    /\ partsRead = 0
    /\ responses = [NewResponses EXCEPT !.out = <<>>]
    /\ openai = NewOpenAI
    /\ call = NoCall
    /\ res = NewRes
    /\ thrown = None
    /\ cooldownState = EmptyMap
    /\ now = 0
    /\ observed = EmptyMap

NoDispatch == [status |-> "idle", model |-> "", original |-> ""]

\* no getCompletion or streamContent call is followed
NoSwitching ==
    [status |-> "idle", disableAutoModelSwitch |-> FALSE, stack |-> <<>>,
     invoked |-> <<>>, handled |-> <<>>, error |-> None, calls |-> 0,
     started |-> 0, atStart |-> EmptyMap]

\* no streamContentInternal call is followed
NoRestart ==
    [status |-> "idle", isRetry |-> FALSE, model |-> "", access_token |-> TRUE,
     posts |-> <<>>, invalidated |-> 0, error |-> None, calls |-> 0,
     thrown |-> <<>>]

\* a client that has discovered nothing and made no call
NoDiscovery ==
    [status |-> "idle", googleCloudProject |-> None, envProject |-> None,
     projectId |-> None, tierId |-> "", retryCount |-> 0, onboardUser |-> 0,
     done |-> 0, lroResponse |-> None, returned |-> None, error |-> None]

InitLater ==
    /\ switching = NoSwitching
    /\ restart = NoRestart
    /\ discovery = NoDiscovery

Init ==
    /\ InitProgram
    /\ fallbackTable = AUTO_SWITCH_MODEL_MAP
    /\ dispatch = NoDispatch
    /\ retried = None
    /\ argument = None
    /\ result = None
    /\ InitLater

\* the client's field and the generator's locals as one value, and back
Client ==
    [firstChunk |-> firstChunk, toolCallId |-> gen.toolCallId,
     usageData |-> gen.usageData, thinkingInProgress |-> gen.thinkingInProgress,
     status |-> gen.status, uuid |-> uuid, out |-> chunks]

SetClient(c) ==
    /\ firstChunk' = c.firstChunk
    /\ gen' = [toolCallId |-> c.toolCallId, usageData |-> c.usageData,
               thinkingInProgress |-> c.thinkingInProgress, status |-> c.status]
    /\ uuid' = c.uuid
    /\ chunks' = c.out

\* the emitter's locals and the caches as one value, and back
EmitterState ==
    [hasEmittedStart |-> emitter.hasEmittedStart, blockIndex |-> emitter.blockIndex,
     currentBlockType |-> emitter.currentBlockType,
     currentThinkingSignature |-> emitter.currentThinkingSignature,
     inputTokens |-> emitter.inputTokens, outputTokens |-> emitter.outputTokens,
     stopReason |-> emitter.stopReason, totalContent |-> emitter.totalContent,
     modelFamily |-> emitter.modelFamily, randomBytes |-> emitter.randomBytes,
     out |-> emitter.out, ended |-> emitter.ended, at |-> consumed + 1,
     thinkingSignatureCache |-> thinkingSignatureCache,
     toolSignatureCache |-> toolSignatureCache,
     signatureFamilyMap |-> signatureFamilyMap]

SetEmitterState(st) ==
    /\ emitter' = [hasEmittedStart |-> st.hasEmittedStart, blockIndex |-> st.blockIndex,
                   currentBlockType |-> st.currentBlockType,
                   currentThinkingSignature |-> st.currentThinkingSignature,
                   inputTokens |-> st.inputTokens, outputTokens |-> st.outputTokens,
                   stopReason |-> st.stopReason, totalContent |-> st.totalContent,
                   modelFamily |-> st.modelFamily, randomBytes |-> st.randomBytes,
                   out |-> st.out, ended |-> st.ended]
    /\ thinkingSignatureCache' = st.thinkingSignatureCache
    /\ toolSignatureCache' = st.toolSignatureCache
    /\ signatureFamilyMap' = st.signatureFamilyMap

\* the previous request, if any, has been answered
Answered ==
    \/ request.mode = "none"
    \/ request.mode = "stream" /\ emitter.ended
    \/ request.mode = "nonstream" /\ response # None

\* the consumer has asked the generator for its next chunk
Pulling ==
    /\ gen.status = "running"
    /\ request.mode \in {"stream", "responses", "openai"} => consumed = Len(chunks)
    /\ request.mode = "openai" => openai.pc = "next"

\* ================================================================= actions
\* POST /v1/messages: the router calls streamContent on the shared client
StartRequest(stream, model) ==
    /\ UNCHANGED routerVars
    /\ Answered
    /\ request.no < MaxRequests
    /\ request' = [no |-> request.no + 1,
                   mode |-> IF stream THEN "stream" ELSE "nonstream"]
    /\ gen' = [NewGen EXCEPT !.status = "running"]
    /\ chunks' = <<>>
    /\ upstream' = NewUpstream
    /\ consumed' = 0
    /\ emitter' = NewEmitter(getModelFamily(model))
    /\ response' = None
    /\ UNCHANGED <<firstChunk, uuid, thinkingSignatureCache, toolSignatureCache,
                   signatureFamilyMap, partsRead>>

\* one part of candidate.content.parts
ReadPart(part) ==
    /\ UNCHANGED routerVars
    /\ Pulling
    /\ partsRead < MaxParts
    /\ partsRead' = partsRead + 1
    /\ SetClient(HandlePart(Client, part))
    /\ upstream' = [upstream EXCEPT
                      !.functionCalls = IF part.kind = "functionCall" THEN @ + 1 ELSE @,
                      !.parts = IF part.kind \in {"text", "functionCall"}
                                THEN Append(@, part) ELSE @]
    /\ UNCHANGED <<request, consumed, emitter, response, thinkingSignatureCache,
                   toolSignatureCache, signatureFamilyMap>>

\* the rest of the record: usageMetadata and finishReason
ReadRecordEnd(usageMetadata, finishReason) ==
    /\ UNCHANGED routerVars
    /\ Pulling
    /\ SetClient(HandleRecordEnd(Client, usageMetadata, finishReason))
    /\ upstream' = [upstream EXCEPT !.finishReason = finishReason]
    /\ UNCHANGED <<request, consumed, emitter, response, thinkingSignatureCache,
                   toolSignatureCache, signatureFamilyMap, partsRead>>

\* the upstream SSE stream ends without a finishReason
UpstreamClose ==
    /\ UNCHANGED routerVars
    /\ Pulling
    /\ SetClient(HandleStreamEnd(Client))
    /\ upstream' = [upstream EXCEPT !.closed = TRUE]
    /\ UNCHANGED <<request, consumed, emitter, response, thinkingSignatureCache,
                   toolSignatureCache, signatureFamilyMap, partsRead>>

\* one iteration of the for-await loop of streamAnthropicResponse
AnthropicChunk ==
    /\ UNCHANGED routerVars
    /\ request.mode = "stream"
    /\ consumed < Len(chunks)
    /\ consumed' = consumed + 1
    /\ SetEmitterState(HandleChunk(EmitterState, chunks[consumed + 1]))
    /\ UNCHANGED <<firstChunk, gen, chunks, uuid, upstream, request, response,
                   partsRead>>

\* the generator is exhausted: the code after the loop
AnthropicEnd ==
    /\ UNCHANGED routerVars
    /\ request.mode = "stream"
    /\ gen.status = "done"
    /\ consumed = Len(chunks)
    /\ ~emitter.ended
    /\ SetEmitterState(FinishStream(EmitterState))
    /\ UNCHANGED <<firstChunk, gen, chunks, uuid, upstream, request, consumed,
                   response, partsRead>>

\* stream: false: getCompletion, then mapGeminiResponseToAnthropic
AnthropicMessage ==
    /\ UNCHANGED routerVars
    /\ request.mode = "nonstream"
    /\ gen.status = "done"
    /\ response = None
    /\ response' = Some(mapGeminiResponseToAnthropic(getCompletion(chunks)))
    /\ UNCHANGED <<firstChunk, gen, chunks, uuid, upstream, request, consumed,
                   emitter, thinkingSignatureCache, toolSignatureCache,
                   signatureFamilyMap, partsRead>>

Next ==
    \/ \E stream \in BOOLEAN, model \in SUPPORTED_MODELS : StartRequest(stream, model)
    \/ \E part \in Parts : ReadPart(part)
    \/ \E um \in UsageMetadatas, fr \in FinishReasons : ReadRecordEnd(um, fr)
    \/ UpstreamClose
    \/ AnthropicChunk
    \/ AnthropicEnd
    \/ AnthropicMessage

Spec == Init /\ [][Next]_vars

\* ------------------------------------------------------- free chunk source
\* Chunks of every shape the emitter's branches distinguish: the shapes the
\* client yields, and combinations it does not (content together with
\* tool_calls, several tool calls, a missing id, a "length" finish).
ToolCallDelta(id, sig) ==
    [index |-> 0, id |-> id, name |-> "f",
     arguments |-> JSONstringify(JObj(<< <<"a", JNum("1")>> >>)),
     thoughtSignature |-> sig]

ThoughtDelta(text, sig) ==
    [EmptyDelta EXCEPT !.content = Some(text), !.thought = TRUE,
                       !.thoughtSignature = sig]

TextDelta(text) == [EmptyDelta EXCEPT !.content = Some(text)]

ToolDelta(toolCalls) == [EmptyDelta EXCEPT !.tool_calls = Some(toolCalls)]

FreeDeltas ==
    {ThoughtDelta(<<"t", "h">>, s) : s \in {SigNone, SigA}}
    \cup {ThoughtDelta(EmptyStr, SigA), closingDelta, EmptyDelta}
    \cup {TextDelta(t) : t \in {<<" ">>, <<"o", "k">>}}
    \cup {ToolDelta(<<ToolCallDelta(7, SigNone)>>),
          ToolDelta(<<ToolCallDelta(0, SigA), ToolCallDelta(8, SigNone)>>),
          ToolDelta(<<>>)}
    \cup {[ThoughtDelta(<<"t", "h">>, SigA) EXCEPT
             !.tool_calls = Some(<<ToolCallDelta(7, SigNone)>>)],
          [TextDelta(<<"o", "k">>) EXCEPT
             !.tool_calls = Some(<<ToolCallDelta(7, SigNone)>>)],
          [TextDelta(<<" ">>) EXCEPT
             !.tool_calls = Some(<<ToolCallDelta(7, SigNone)>>)],
          [closingDelta EXCEPT
             !.tool_calls = Some(<<ToolCallDelta(7, SigNone)>>)],
          [ThoughtDelta(<<"t", "h">>, SigNone) EXCEPT !.thinkingEnd = TRUE]}

FreeChunks ==
    {createOpenAIChunk(d, "null") : d \in FreeDeltas}
    \cup {createOpenAIChunk(EmptyDelta, fr) : fr \in {"stop", "length", "tool_calls"}}
    \cup {createOpenAIChunk(TextDelta(<<"o", "k">>), "length")}

\* streamAnthropicResponse is handed a chunk stream
StartStream ==
    /\ UNCHANGED routerVars
    /\ request.mode = "none"
    /\ request' = [no |-> 1, mode |-> "stream"]
    /\ gen' = [NewGen EXCEPT !.status = "feeding"]
    /\ emitter' = NewEmitter(getModelFamily("gemini-2.5-pro"))
    /\ UNCHANGED <<firstChunk, chunks, uuid, upstream, consumed, response,
                   thinkingSignatureCache, toolSignatureCache, signatureFamilyMap,
                   partsRead>>

\* the stream yields one more chunk
FeedChunk(chunk) ==
    /\ UNCHANGED routerVars
    /\ gen.status = "feeding"
    /\ consumed = Len(chunks)
    /\ Len(chunks) < MaxChunks
    /\ chunks' = Append(chunks, chunk)
    /\ UNCHANGED <<firstChunk, gen, uuid, upstream, request, consumed, emitter,
                   response, thinkingSignatureCache, toolSignatureCache,
                   signatureFamilyMap, partsRead>>

\* the stream completes
FeedEnd ==
    /\ UNCHANGED routerVars
    /\ gen.status = "feeding"
    /\ consumed = Len(chunks)
    /\ gen' = [gen EXCEPT !.status = "done"]
    /\ UNCHANGED <<firstChunk, chunks, uuid, upstream, request, consumed, emitter,
                   response, thinkingSignatureCache, toolSignatureCache,
                   signatureFamilyMap, partsRead>>

NextChunks ==
    \/ StartStream
    \/ \E chunk \in FreeChunks : FeedChunk(chunk)
    \/ FeedEnd
    \/ AnthropicChunk
    \/ AnthropicEnd

SpecChunks == Init /\ [][NextChunks]_vars

\* ------------------------------------------------ POST /responses pipeline
\* the handler's locals and the caches as one value, and back
ResponsesState ==
    [messageItemEmitted |-> responses.messageItemEmitted,
     messageItemId |-> responses.messageItemId,
     accumulatedText |-> responses.accumulatedText,
     outputIndex |-> responses.outputIndex,
     toolCallItems |-> responses.toolCallItems,
     randomUUID |-> responses.randomUUID,
     out |-> responses.out, ended |-> responses.ended,
     thinkingSignatureCache |-> thinkingSignatureCache,
     toolSignatureCache |-> toolSignatureCache,
     signatureFamilyMap |-> signatureFamilyMap]

SetResponsesState(st) ==
    /\ responses' = [messageItemEmitted |-> st.messageItemEmitted,
                     messageItemId |-> st.messageItemId,
                     accumulatedText |-> st.accumulatedText,
                     outputIndex |-> st.outputIndex,
                     toolCallItems |-> st.toolCallItems,
                     randomUUID |-> st.randomUUID,
                     out |-> st.out, ended |-> st.ended]
    /\ thinkingSignatureCache' = st.thinkingSignatureCache
    /\ toolSignatureCache' = st.toolSignatureCache
    /\ signatureFamilyMap' = st.signatureFamilyMap

\* POST /responses with stream: true: the two opening events, then streamContent
StartResponses ==
    /\ UNCHANGED callVars
    /\ UNCHANGED openai
    /\ request.mode = "none"
    /\ request' = [no |-> request.no + 1, mode |-> "responses"]
    /\ gen' = [NewGen EXCEPT !.status = "running"]
    /\ responses' = NewResponses
    /\ UNCHANGED <<firstChunk, chunks, uuid, upstream, consumed, emitter, response,
                   thinkingSignatureCache, toolSignatureCache, signatureFamilyMap,
                   partsRead>>

\* one iteration of the for-await loop of POST /responses
ResponsesChunk ==
    /\ UNCHANGED callVars
    /\ UNCHANGED openai
    /\ request.mode = "responses"
    /\ consumed < Len(chunks)
    /\ consumed' = consumed + 1
    /\ SetResponsesState(ResponsesChunkBody(ResponsesState, chunks[consumed + 1]))
    /\ UNCHANGED <<firstChunk, gen, chunks, uuid, upstream, request, emitter,
                   response, partsRead>>

\* the generator is exhausted: the code after the loop
ResponsesEnd ==
    /\ UNCHANGED callVars
    /\ UNCHANGED openai
    /\ request.mode = "responses"
    /\ gen.status = "done"
    /\ consumed = Len(chunks)
    /\ ~responses.ended
    /\ SetResponsesState(ResponsesFinish(ResponsesState))
    /\ UNCHANGED <<firstChunk, gen, chunks, uuid, upstream, request, consumed,
                   emitter, response, partsRead>>

NextResponses ==
    \/ StartResponses
    \/ \E part \in Parts : ReadPart(part)
    \/ \E um \in UsageMetadatas, fr \in FinishReasons : ReadRecordEnd(um, fr)
    \/ UpstreamClose
    \/ ResponsesChunk
    \/ ResponsesEnd

SpecResponses == Init /\ [][NextResponses]_vars

\* ------------------------------------------- POST /chat/completions pipeline
\* POST /chat/completions with stream: true: the TransformStream is made and
\* the producer task calls streamContent
StartChatCompletions ==
    /\ UNCHANGED callVars
    /\ request.mode = "none"
    /\ request' = [no |-> request.no + 1, mode |-> "openai"]
    /\ gen' = [NewGen EXCEPT !.status = "running"]
    /\ openai' = NewOpenAI
    /\ UNCHANGED <<firstChunk, chunks, uuid, upstream, consumed, emitter, response,
                   thinkingSignatureCache, toolSignatureCache, signatureFamilyMap,
                   partsRead, responses>>

\* producer: one iteration of the for-await loop up to await writer.write(chunk)
ProducerWrite ==
    /\ UNCHANGED callVars
    /\ request.mode = "openai"
    /\ openai.pc = "next"
    /\ consumed < Len(chunks)
    /\ consumed' = consumed + 1
    /\ LET chunk == chunks[consumed + 1]
           st == [toolSignatureCache |-> toolSignatureCache]
       IN /\ toolSignatureCache' =
                (IF TruthyObj(chunk.delta.tool_calls)
                 THEN CacheToolSignatures(st, chunk.delta.tool_calls[1])
                 ELSE st).toolSignatureCache
          /\ openai' = writerWrite(openai, chunk)
    /\ UNCHANGED <<firstChunk, gen, chunks, uuid, upstream, request, emitter,
                   response, thinkingSignatureCache, signatureFamilyMap, partsRead,
                   responses>>

\* the TransformStream passes the waiting chunk on when the reader, whose
\* read is pending, has emptied the readable side
Transform ==
    /\ UNCHANGED callVars
    /\ request.mode = "openai"
    /\ openai.writable # <<>>
    /\ openai.readable = <<>>
    /\ openai' = transform(openai)
    /\ UNCHANGED <<firstChunk, gen, chunks, uuid, upstream, request, consumed,
                   emitter, response, thinkingSignatureCache, toolSignatureCache,
                   signatureFamilyMap, partsRead, responses>>

\* producer: the generator is exhausted, await writer.close()
ProducerClose ==
    /\ UNCHANGED callVars
    /\ request.mode = "openai"
    /\ openai.pc = "next"
    /\ gen.status = "done"
    /\ consumed = Len(chunks)
    /\ openai' = writerClose(openai)
    /\ UNCHANGED <<firstChunk, gen, chunks, uuid, upstream, request, consumed,
                   emitter, response, thinkingSignatureCache, toolSignatureCache,
                   signatureFamilyMap, partsRead, responses>>

\* consumer: reader.read() gives a chunk, written as one data event
ConsumerRead ==
    /\ UNCHANGED callVars
    /\ request.mode = "openai"
    /\ ~openai.ended
    /\ openai.readable # <<>>
    /\ openai' = readerRead(openai)
    /\ UNCHANGED <<firstChunk, gen, chunks, uuid, upstream, request, consumed,
                   emitter, response, thinkingSignatureCache, toolSignatureCache,
                   signatureFamilyMap, partsRead, responses>>

\* consumer: reader.read() gives done
ConsumerDone ==
    /\ UNCHANGED callVars
    /\ request.mode = "openai"
    /\ ~openai.ended
    /\ openai.readable = <<>>
    /\ openai.state = "closed"
    /\ openai' = readerDone(openai)
    /\ UNCHANGED <<firstChunk, gen, chunks, uuid, upstream, request, consumed,
                   emitter, response, thinkingSignatureCache, toolSignatureCache,
                   signatureFamilyMap, partsRead, responses>>

NextOpenAI ==
    \/ StartChatCompletions
    \/ \E part \in Parts : ReadPart(part)
    \/ \E um \in UsageMetadatas, fr \in FinishReasons : ReadRecordEnd(um, fr)
    \/ UpstreamClose
    \/ ProducerWrite
    \/ Transform
    \/ ProducerClose
    \/ ConsumerRead
    \/ ConsumerDone

SpecOpenAI == Init /\ [][NextOpenAI]_vars

\* ------------------------------------------------- requests and their failures
\* res.headersSent: flushHeaders (Anthropic stream) or a res.write sends them
HeadersSent ==
    \/ request.mode \in {"stream", "responses"}
    \/ request.mode = "openai" /\ Len(openai.out) > 0
    \/ res.body # None

\* a request arrives at one of the three routes: validation, then
\* discoverProjectId and the call of streamContent or getCompletion
Call(dialect, stream, body, allowed) ==
    /\ request.mode = "none"
    /\ LET rejected == Validation(dialect, NewRes, body, allowed)
           accepted == rejected = None
       IN /\ request' = [no |-> request.no + 1,
                         mode |-> IF accepted THEN ModeOf(dialect, stream)
                                  ELSE "rejected"]
          /\ call' = [NoCall EXCEPT !.dialect = dialect, !.stream = stream,
                                    !.body = body, !.allowed = allowed,
                                    !.discoverProjectId = IF accepted THEN 1 ELSE 0,
                                    !.streamGenerateContent = IF accepted THEN 1 ELSE 0]
          /\ res' = IF accepted THEN NewRes ELSE rejected[1]
          /\ gen' = IF accepted THEN [NewGen EXCEPT !.status = "running"] ELSE gen
          /\ responses' = IF accepted /\ dialect = "responses" /\ stream
                          THEN NewResponses ELSE responses
    /\ emitter' = NewEmitter(getModelFamily(call.model))
    /\ openai' = NewOpenAI
    /\ UNCHANGED <<firstChunk, chunks, uuid, upstream, consumed, response,
                   thinkingSignatureCache, toolSignatureCache, signatureFamilyMap,
                   partsRead, thrown, cooldownState, now, observed, extraVars>>

\* the upstream call fails: with an HTTP status before anything is received,
\* or with a broken connection (status 0) at any point; streamContent asks
\* shouldAttemptFallback for a rate-limit status and, AUTO_SWITCH_MODEL_MAP
\* having no entry, rethrows
UpstreamFail(status, retryAfter, resetMatch) ==
    /\ Pulling
    /\ status # 0 => /\ chunks = <<>>
                     /\ upstream = NewUpstream
                     /\ gen = [NewGen EXCEPT !.status = "running"]
    /\ LET error == ClientError(status, retryAfter, resetMatch)
           fallback == shouldAttemptFallback(fallbackTable, cooldownState, call.model, now)
       IN /\ isRateLimitError(error.statusCode) => ~fallback.result
          /\ cooldownState' = IF isRateLimitError(error.statusCode)
                              THEN fallback.cooldownState ELSE cooldownState
          /\ thrown' = Some(error)
    /\ gen' = [gen EXCEPT !.status = "failed"]
    /\ UNCHANGED <<firstChunk, chunks, uuid, upstream, request, consumed, emitter,
                   response, thinkingSignatureCache, toolSignatureCache,
                   signatureFamilyMap, partsRead, responses, openai, call, res, now,
                   observed, extraVars>>

\* the handler's await throws once the chunks before the failure are handled
Throws(mode) ==
    /\ request.mode = mode
    /\ gen.status = "failed"
    /\ ~res.ended

\* POST /v1/messages, stream: true: the catch around streamAnthropicResponse
AnthropicStreamFails ==
    /\ Throws("stream")
    /\ consumed = Len(chunks)
    /\ res' = AnthropicStreamCatch(res, HeadersSent, thrown[1])
    /\ UNCHANGED <<firstChunk, gen, chunks, uuid, upstream, request, consumed,
                   emitter, response, thinkingSignatureCache, toolSignatureCache,
                   signatureFamilyMap, partsRead, responses, openai, call, thrown,
                   cooldownState, now, observed, extraVars>>

\* POST /v1/messages, stream: false: the catch around getCompletion
AnthropicMessageFails ==
    /\ Throws("nonstream")
    /\ res' = AnthropicMessageCatch(res, thrown[1])
    /\ UNCHANGED <<firstChunk, gen, chunks, uuid, upstream, request, consumed,
                   emitter, response, thinkingSignatureCache, toolSignatureCache,
                   signatureFamilyMap, partsRead, responses, openai, call, thrown,
                   cooldownState, now, observed, extraVars>>

\* POST /chat/completions, stream: true: the producer's catch
ProducerAbort ==
    /\ Throws("openai")
    /\ openai.pc = "next"
    /\ consumed = Len(chunks)
    /\ openai' = writerAbort(openai, thrown[1])
    /\ UNCHANGED <<firstChunk, gen, chunks, uuid, upstream, request, consumed,
                   emitter, response, thinkingSignatureCache, toolSignatureCache,
                   signatureFamilyMap, partsRead, responses, callVars>>

\* POST /chat/completions, stream: true: reader.read() rejects, outer catch
ConsumerFails ==
    /\ request.mode = "openai"
    /\ openai.state = "errored"
    /\ ~res.ended
    /\ res' = OuterCatch(res, HeadersSent, FALSE, [message |-> openai.reason[1]])
    /\ UNCHANGED <<firstChunk, gen, chunks, uuid, upstream, request, consumed,
                   emitter, response, thinkingSignatureCache, toolSignatureCache,
                   signatureFamilyMap, partsRead, responses, openai, call, thrown,
                   cooldownState, now, observed, extraVars>>

\* POST /responses, stream: true: catch (streamError)
ResponsesStreamFails ==
    /\ Throws("responses")
    /\ consumed = Len(chunks)
    /\ res' = ResponsesStreamCatch(res, HeadersSent, thrown[1])
    /\ UNCHANGED <<firstChunk, gen, chunks, uuid, upstream, request, consumed,
                   emitter, response, thinkingSignatureCache, toolSignatureCache,
                   signatureFamilyMap, partsRead, responses, openai, call, thrown,
                   cooldownState, now, observed, extraVars>>

\* stream: false on the OpenAI router: catch (completionError)
CompletionFails ==
    /\ \/ Throws("openai-nonstream")
       \/ Throws("responses-nonstream")
    /\ res' = CompletionCatch(res, thrown[1])
    /\ UNCHANGED <<firstChunk, gen, chunks, uuid, upstream, request, consumed,
                   emitter, response, thinkingSignatureCache, toolSignatureCache,
                   signatureFamilyMap, partsRead, responses, openai, call, thrown,
                   cooldownState, now, observed, extraVars>>

\* stream: false on the OpenAI router: getCompletion returns
Completion ==
    /\ request.mode \in {"openai-nonstream", "responses-nonstream"}
    /\ gen.status = "done"
    /\ ~res.ended
    /\ res' = IF request.mode = "openai-nonstream"
              THEN ChatCompletionResponse(res, getCompletion(chunks))
              ELSE buildResponseObject(res, getCompletion(chunks))
    /\ UNCHANGED <<firstChunk, gen, chunks, uuid, upstream, request, consumed,
                   emitter, response, thinkingSignatureCache, toolSignatureCache,
                   signatureFamilyMap, partsRead, responses, openai, call, thrown,
                   cooldownState, now, observed, extraVars>>

\* the downstream client closes the connection while a streaming response is
\* in progress; no handler listens for it, so only the number of chunks the
\* generator had yielded by then is noted
ClientDisconnect ==
    /\ request.mode \in {"stream", "openai", "responses"}
    /\ gen.status = "running"
    /\ call.disconnectedAt = -1
    /\ call' = [call EXCEPT !.disconnectedAt = Len(chunks)]
    /\ UNCHANGED <<firstChunk, gen, chunks, uuid, upstream, request, consumed,
                   emitter, response, thinkingSignatureCache, toolSignatureCache,
                   signatureFamilyMap, partsRead, responses, openai, res, thrown,
                   cooldownState, now, observed, extraVars>>

ErrorParts ==
    {TextPart(<<"o", "k">>, FALSE, SigNone),
     FunctionCallPart("f", JObj(<< <<"a", JNum("1")>> >>), SigNone)}

UpstreamStatuses == {0, 429, 503}

NextErrors ==
    \/ \E dialect \in {"anthropic", "openai", "responses"}, stream \in BOOLEAN,
          body \in Bodies, allowed \in BOOLEAN : Call(dialect, stream, body, allowed)
    \/ \E part \in ErrorParts : ReadPart(part)
    \/ \E fr \in FinishReasons : ReadRecordEnd(None, fr)
    \/ UpstreamClose
    \/ \E status \in UpstreamStatuses, ra \in RetryAfters, rm \in ResetMatches :
          UpstreamFail(status, ra, rm)
    \/ AnthropicChunk
    \/ AnthropicEnd
    \/ AnthropicMessage
    \/ ResponsesChunk
    \/ ResponsesEnd
    \/ ProducerWrite
    \/ Transform
    \/ ProducerClose
    \/ ConsumerRead
    \/ ConsumerDone
    \/ AnthropicStreamFails
    \/ AnthropicMessageFails
    \/ ProducerAbort
    \/ ConsumerFails
    \/ ResponsesStreamFails
    \/ CompletionFails
    \/ Completion
    \/ ClientDisconnect

SpecErrors == Init /\ [][NextErrors]_vars

\* ------------------------------------------------------ cooldown of models
CooldownModels == {"gemini-2.5-pro", "gemini-2.5-flash"}

\* steps of the clock: two of them add up to the cooldown or to a millisecond
\* less, so that the times between an observation and a question include
\* the cooldown exactly and the last millisecond before it
ClockSteps == {299999, 300000}

clientVars ==
    <<firstChunk, gen, chunks, uuid, upstream, request, consumed, emitter,
      response, thinkingSignatureCache, toolSignatureCache, signatureFamilyMap,
      partsRead, responses, openai, call, res, thrown>>

\* time passes
Tick(d) ==
    /\ now + d <= MaxClock
    /\ now' = now + d
    /\ UNCHANGED <<clientVars, cooldownState, observed, extraVars>>

\* autoSwitcher.addRateLimitedModel(model, statusCode)
AddRateLimitedModel(model, statusCode) ==
    /\ cooldownState' = addRateLimitedModel(cooldownState, model, statusCode, now)
    /\ observed' = MapSet(observed, model, now)
    /\ UNCHANGED <<clientVars, now, extraVars>>

\* autoSwitcher.isModelInCooldown(model), which drops an expired entry
IsModelInCooldown(model) ==
    /\ cooldownState' = isModelInCooldown(cooldownState, model, now).cooldownState
    /\ UNCHANGED <<clientVars, now, observed, extraVars>>

NextCooldown ==
    \/ \E d \in ClockSteps : Tick(d)
    \/ \E model \in CooldownModels, statusCode \in RATE_LIMIT_STATUS_CODES :
          AddRateLimitedModel(model, statusCode)
    \/ \E model \in CooldownModels : IsModelInCooldown(model)

SpecCooldown == Init /\ [][NextCooldown]_vars

\* ------------------------------------------------------- fallback controller
FallbackModels == {"gemini-2.5-pro", "gemini-2.5-flash", "gemini-2.5-flash-lite"}

\* the tables AUTO_SWITCH_MODEL_MAP can hold over three models, none of them
\* naming a model as its own fallback; chains and cycles are among them
FallbackTables ==
    UNION {{t \in [from -> FallbackModels] : \A m \in from : t[m] # m} :
           from \in SUBSET FallbackModels}

InitFallback ==
    /\ InitProgram
    /\ fallbackTable \in FallbackTables
    /\ dispatch = NoDispatch
    /\ retried = None
    /\ argument = None
    /\ result = None
    /\ InitLater

\* streamContent(request): streamContentInternal posts to the upstream
StreamContent(model) ==
    /\ dispatch.status = "idle"
    /\ dispatch' = [status |-> "calling", model |-> model, original |-> model]
    /\ UNCHANGED <<clientVars, cooldownState, now, observed, fallbackTable,
                   retried, argument, result, laterVars>>

\* the upstream answers and the stream ends
UpstreamAnswers ==
    /\ dispatch.status = "calling"
    /\ dispatch' = [dispatch EXCEPT !.status = "idle"]
    /\ UNCHANGED <<clientVars, cooldownState, now, observed, fallbackTable,
                   retried, argument, result, laterVars>>

\* the upstream rejects the call with an HTTP status: the catch of
\* streamContent rethrows, or handleStreamingFallback puts the model in
\* cooldown and calls the retry function, which posts for the fallback model
UpstreamRejects(statusCode) ==
    /\ dispatch.status = "calling"
    /\ LET model == dispatch.model
           should == shouldAttemptFallback(fallbackTable, cooldownState, model, now)
           attempt == isRateLimitError(statusCode) /\ should.result
           cs == addRateLimitedModel(should.cooldownState, model, statusCode, now)
           fallbackModel == getFallbackModel(fallbackTable, model)[1]
       IN IF attempt
          THEN /\ cooldownState' = cs
               /\ observed' = MapSet(observed, model, now)
               /\ retried' = Some([model |-> fallbackModel,
                                   inCooldown |->
                                     isModelInCooldown(cs, fallbackModel, now).result])
               /\ dispatch' = [dispatch EXCEPT !.model = fallbackModel]
          ELSE /\ cooldownState' = IF isRateLimitError(statusCode)
                                   THEN should.cooldownState ELSE cooldownState
               /\ dispatch' = [dispatch EXCEPT !.status = "idle"]
               /\ UNCHANGED <<observed, retried>>
    /\ UNCHANGED <<clientVars, now, fallbackTable, argument, result, laterVars>>

\* a rate-limit status and one that is none
RejectStatuses == {429, 500}

NextFallback ==
    \/ \E d \in ClockSteps : Tick(d)
    \/ \E model \in FallbackModels : StreamContent(model)
    \/ UpstreamAnswers
    \/ \E statusCode \in RejectStatuses : UpstreamRejects(statusCode)

SpecFallback == InitFallback /\ [][NextFallback]_vars

\* getBestAvailableModel(preferredModel). The loop ends at once unless the
\* chain runs into a cycle of models that are all in cooldown; it then keeps
\* going round, reading Date.now() at every turn, until the first of these
\* cooldowns has run out, and returns a model whose cooldown ran out then.
\* argument keeps the call: the model asked for and the models that are in
\* cooldown when it returns.
GetBestAvailableModel(preferredModel) ==
    LET n == Cardinality(DOMAIN fallbackTable)
        walk == WalkFallbackChain(fallbackTable, cooldownState, preferredModel, now, n)
        chain == {preferredModel} \cup FallbacksOf(fallbackTable, preferredModel, n)
        cycle == {m \in chain : m \in FallbacksOf(fallbackTable, m, n)}
        ends == {CooldownEnd(cooldownState, m) : m \in cycle}
    IN /\ IF walk.returns
          THEN /\ result' = Some(walk.model)
               /\ cooldownState' = walk.cooldownState
               /\ now' = now
          ELSE \E m \in cycle :
                  /\ \A t \in ends : CooldownEnd(cooldownState, m) <= t
                  /\ CooldownEnd(cooldownState, m) <= MaxClock
                  /\ now' = CooldownEnd(cooldownState, m)
                  /\ result' = Some(m)
                  /\ cooldownState' =
                        [x \in DOMAIN cooldownState \ {m} |-> cooldownState[x]]
       /\ argument' =
             Some([preferredModel |-> preferredModel,
                   inCooldown |->
                     {m \in FallbackModels :
                        isModelInCooldown(cooldownState, m, now').result}])
       /\ UNCHANGED <<clientVars, observed, fallbackTable, dispatch, retried,
                      laterVars>>

NextBest ==
    \/ Tick(DEFAULT_COOLDOWN_MINUTES * 60 * 1000)
    \/ \E model \in FallbackModels : AddRateLimitedModel(model, 429)
    \/ \E model \in FallbackModels : GetBestAvailableModel(model)

SpecBest == InitFallback /\ [][NextBest]_vars

\* ------------------------------------------------------ OpenAI request mapper
\* OpenAI.ChatMessage; content is a string or a list of MessageContent,
\* tool_calls is empty and tool_call_id is 0 where the message has none
StringContent(text) == [kind |-> "string", text |-> text, items |-> <<>>]

ArrayContent(items) == [kind |-> "array", text |-> EmptyStr, items |-> items]

TextContent(text) == [type |-> "text", text |-> text, url |-> <<>>]

ImageUrlContent(url) == [type |-> "image_url", text |-> EmptyStr, url |-> url]

ChatMessage(role, content) ==
    [role |-> role, content |-> content, tool_calls |-> <<>>, tool_call_id |-> 0]

ToolCall(index, id, name, arguments) ==
    [index |-> index, id |-> id, type |-> "function", name |-> name,
     arguments |-> arguments]

\* Gemini.Part of a request
TextPartOf(text) ==
    [kind |-> "text", text |-> text, name |-> "", args |-> JNum("0"),
     result |-> EmptyStr, mimeType |-> "", data |-> "", thoughtSignature |-> ""]

FunctionCallPartOf(name, args) ==
    [kind |-> "functionCall", text |-> EmptyStr, name |-> name, args |-> args,
     result |-> EmptyStr, mimeType |-> "", data |-> "", thoughtSignature |-> ""]

FunctionResponsePartOf(name, result1) ==
    [kind |-> "functionResponse", text |-> EmptyStr, name |-> name,
     args |-> JNum("0"), result |-> result1, mimeType |-> "", data |-> "",
     thoughtSignature |-> ""]

InlineDataPartOf(mimeType, data) ==
    [kind |-> "inlineData", text |-> EmptyStr, name |-> "", args |-> JNum("0"),
     result |-> EmptyStr, mimeType |-> mimeType, data |-> data,
     thoughtSignature |-> ""]

\* JSON.parse of the arguments of a tool call
JSONparse(s) == CHOOSE v \in ToolArgs \cup {JObj(<<>>)} : JSONstringify(v) = s

\* text.endsWith("\n")
EndsWithNewline(text) == text # EmptyStr /\ text[Len(text)] = "\n"

\* a URL is its pieces: imageUrl.match(/^data:(image\/.+);base64,(.+)$/)
MatchesDataUrl(url) ==
    /\ Len(url) = 4
    /\ url[1] = "data:"
    /\ url[3] = ";base64,"

isSystemMessage(message) == message.role \in {"system", "developer"}

\* prevMsg?.tool_calls?.find(tc => tc.id === msg.tool_call_id)
FindToolCall(prevMsg, id) ==
    IF prevMsg = None THEN None
    ELSE LET calls == prevMsg[1].tool_calls
             found == {i \in 1..Len(calls) : calls[i].id = id}
         IN IF found = {} THEN None
            ELSE Some(calls[CHOOSE i \in found : \A j \in found : i <= j])

RECURSIVE ToolCallParts(_)
ToolCallParts(toolCalls) ==
    IF toolCalls = <<>> THEN <<>>
    ELSE (IF Head(toolCalls).type = "function"
          THEN <<FunctionCallPartOf(Head(toolCalls).name,
                                    JSONparse(Head(toolCalls).arguments))>>
          ELSE <<>>)
         \o ToolCallParts(Tail(toolCalls))

RECURSIVE MessageContentParts(_)
MessageContentParts(items) ==
    IF items = <<>> THEN <<>>
    ELSE LET content == Head(items)
         IN (IF content.type = "text"
             THEN <<TextPartOf(IF EndsWithNewline(content.text) THEN content.text
                               ELSE Append(content.text, "\n"))>>
             ELSE IF content.type = "image_url" /\ MatchesDataUrl(content.url)
                  THEN <<InlineDataPartOf(content.url[2], content.url[4])>>
                  ELSE <<>>)
            \o MessageContentParts(Tail(items))

mapOpenAIMessageToGeminiFormat(msg, prevMsg) ==
    LET role == IF msg.role = "assistant" THEN "model" ELSE "user"
    IN IF msg.role = "tool"
       THEN LET originalToolCall == FindToolCall(prevMsg, msg.tool_call_id)
            IN [role |-> "user",
                parts |-> <<FunctionResponsePartOf(
                              IF originalToolCall # None
                              THEN originalToolCall[1].name ELSE "unknown",
                              msg.content.text)>>]
       ELSE IF msg.role = "assistant" /\ Len(msg.tool_calls) > 0
       THEN [role |-> "model",
             parts |-> (IF msg.content.kind = "string"
                           /\ Trim(msg.content.text) # EmptyStr
                        THEN <<TextPartOf(msg.content.text)>> ELSE <<>>)
                       \o ToolCallParts(msg.tool_calls)]
       ELSE IF msg.content.kind = "string"
       THEN [role |-> role, parts |-> <<TextPartOf(msg.content.text)>>]
       ELSE [role |-> role, parts |-> MessageContentParts(msg.content.items)]

RECURSIVE mapOpenAIMessagesToGeminiFormat(_, _)
mapOpenAIMessagesToGeminiFormat(messages, prevMessage) ==
    IF messages = <<>> THEN <<>>
    ELSE <<mapOpenAIMessageToGeminiFormat(Head(messages), prevMessage)>>
         \o mapOpenAIMessagesToGeminiFormat(Tail(messages), Some(Head(messages)))

\* contents of mapOpenAIChatCompletionRequestToGemini
OpenAIContents(messages) ==
    mapOpenAIMessagesToGeminiFormat(
        SelectSeq(messages, LAMBDA m : ~isSystemMessage(m)), None)

\* --------------------------------------------------- Responses request mapper
\* Responses.ResponseInputItem: a message, a function_call or a
\* function_call_output
MessageInput(role, content) ==
    [type |-> "message", role |-> role, content |-> content, call_id |-> 0,
     name |-> "", arguments |-> EmptyStr, output |-> EmptyStr]

FunctionCallInput(call_id, name, arguments) ==
    [type |-> "function_call", role |-> "", content |-> StringContent(EmptyStr),
     call_id |-> call_id, name |-> name, arguments |-> arguments,
     output |-> EmptyStr]

FunctionCallOutputInput(call_id, output) ==
    [type |-> "function_call_output", role |-> "",
     content |-> StringContent(EmptyStr), call_id |-> call_id, name |-> "",
     arguments |-> EmptyStr, output |-> output]

mapRole(role) ==
    IF role \in {"user", "assistant", "system", "developer", "tool"} THEN role
    ELSE "user"

\* content parts of an input message carry type input_text or input_image
RECURSIVE ConvertContents(_)
ConvertContents(items) ==
    IF items = <<>> THEN <<>>
    ELSE LET c == Head(items)
         IN <<IF c.type = "input_text" THEN TextContent(c.text)
              ELSE IF c.type = "input_image" THEN ImageUrlContent(c.url)
              ELSE TextContent(c.text)>>
            \o ConvertContents(Tail(items))

convertMessageContent(content) ==
    IF content.kind = "string" THEN content
    ELSE ArrayContent(ConvertContents(content.items))

\* variant of PendingToolCall that counts the index from one
PendingToolCallFromOne(pendingToolCalls, fc) ==
    ToolCall(Len(pendingToolCalls) + 1, fc.call_id, fc.name, fc.arguments)

\* the tool call pushed on pendingToolCalls for a function_call item
PendingToolCall(pendingToolCalls, fc) ==
    ToolCall(Len(pendingToolCalls), fc.call_id, fc.name, fc.arguments)

flushPendingToolCalls(toolCalls, messages) ==
    IF Len(toolCalls) = 0 THEN messages
    ELSE Append(messages,
                [ChatMessage("assistant", StringContent(EmptyStr))
                   EXCEPT !.tool_calls = toolCalls])

\* the loop of convertInputItems from its locals to their values at its end
RECURSIVE ConvertItems(_, _, _)
ConvertItems(items, pendingToolCalls, messages) ==
    IF items = <<>> THEN flushPendingToolCalls(pendingToolCalls, messages)
    ELSE LET item == Head(items)
             flushed == flushPendingToolCalls(pendingToolCalls, messages)
         IN IF item.type = "message"
            THEN ConvertItems(Tail(items), <<>>,
                   Append(flushed, ChatMessage(mapRole(item.role),
                                               convertMessageContent(item.content))))
            ELSE IF item.type = "function_call"
            THEN ConvertItems(Tail(items),
                   Append(pendingToolCalls, PendingToolCall(pendingToolCalls, item)),
                   messages)
            ELSE IF item.type = "function_call_output"
            THEN ConvertItems(Tail(items), <<>>,
                   Append(flushed,
                          [ChatMessage("tool", StringContent(item.output))
                             EXCEPT !.tool_call_id = item.call_id]))
            ELSE ConvertItems(Tail(items), pendingToolCalls, messages)

convertInputItems(items, messages) == ConvertItems(items, <<>>, messages)

\* messages of mapResponsesRequestToChatCompletion; instructions is a string
\* or absent, input is a list of items
mapResponsesRequestToChatCompletion(req) ==
    convertInputItems(req.input,
        IF TruthyStr(req.instructions)
        THEN <<ChatMessage("system", StringContent(req.instructions[1]))>>
        ELSE <<>>)

\* --------------------------------------------------- Anthropic request mapper
\* Anthropic.RequestContent: text, image, tool_use, tool_result or thinking;
\* content is the string a tool_result carries, if it carries one
ContentOf(type) ==
    [type |-> type, text |-> EmptyStr, id |-> 0, name |-> "", input |-> JNum("0"),
     tool_use_id |-> 0, content |-> None, media_type |-> "", data |-> ""]

SYNTHETIC_THOUGHT_SIGNATURE == "skip_thought_signature_validator"

\* for (const msg of allMessages) { msg.content.find(tool_use with the id) }
RECURSIVE FindToolName(_, _)
FindToolName(allMessages, tool_use_id) ==
    IF allMessages = <<>> THEN "unknown_tool"
    ELSE LET msg == Head(allMessages)
             found == IF msg.content.kind # "array" THEN {}
                      ELSE {i \in 1..Len(msg.content.items) :
                              /\ msg.content.items[i].type = "tool_use"
                              /\ msg.content.items[i].id = tool_use_id}
         IN IF found # {}
            THEN msg.content.items[CHOOSE i \in found : \A j \in found : i <= j].name
            ELSE FindToolName(Tail(allMessages), tool_use_id)

RECURSIVE ContentBlockParts(_, _)
ContentBlockParts(contentBlocks, allMessages) ==
    IF contentBlocks = <<>> THEN <<>>
    ELSE LET content == Head(contentBlocks)
             part ==
               IF content.type = "text"
               THEN IF Trim(content.text) = EmptyStr THEN <<>>
                    ELSE <<TextPartOf(IF EndsWithNewline(content.text)
                                      THEN content.text
                                      ELSE Append(content.text, "\n"))>>
               ELSE IF content.type = "image"
               THEN <<InlineDataPartOf(content.media_type, content.data)>>
               ELSE IF content.type = "tool_use"
               THEN <<[FunctionCallPartOf(content.name, content.input) EXCEPT
                         !.thoughtSignature = SYNTHETIC_THOUGHT_SIGNATURE]>>
               ELSE IF content.type = "tool_result"
               THEN <<FunctionResponsePartOf(
                        FindToolName(allMessages, content.tool_use_id),
                        IF content.content # None THEN content.content[1]
                        ELSE <<"S", "u", "c", "c", "e", "s", "s">>)>>
               ELSE <<>>
         IN part \o ContentBlockParts(Tail(contentBlocks), allMessages)

mapAnthropicMessageToGeminiFormat(message, allMessages) ==
    LET role == IF message.role = "assistant" THEN "model" ELSE "user"
    IN IF message.content.kind = "string"
       THEN [role |-> role, parts |-> <<TextPartOf(message.content.text)>>]
       ELSE LET parts == ContentBlockParts(message.content.items, allMessages)
            IN [role |-> role,
                parts |-> IF Len(parts) = 0 THEN <<TextPartOf(<<".">>)>> ELSE parts]

mapAnthropicMessagesToGeminiFormat(messages) ==
    [i \in 1..Len(messages) |->
        mapAnthropicMessageToGeminiFormat(messages[i], messages)]

\* the hint as one piece of text
InterleavedThinkingHint == <<"Interleaved thinking is enabled.">>

\* request.system is absent, a string, or a list of blocks
SystemParts(system) ==
    IF system.kind = "string" THEN <<[text |-> system.text]>>
    ELSE LET texts == SelectSeq(system.items, LAMBDA msg : msg.type = "text")
         IN [i \in 1..Len(texts) |-> [text |-> texts[i].text]]

\* contents and systemInstruction of mapAnthropicMessagesRequestToGemini;
\* tools is the number of tools declared. The hint is written first, when
\* geminiRequest has no systemInstruction yet, and request.system is
\* assigned after it
mapAnthropicMessagesRequestToGemini(req) ==
    LET hinted == IF req.tools > 0
                  THEN Some([parts |-> <<[text |-> InterleavedThinkingHint]>>])
                  ELSE None
        truthy == req.system # None
                  /\ ~(req.system[1].kind = "string" /\ req.system[1].text = EmptyStr)
        parts == IF truthy THEN SystemParts(req.system[1]) ELSE <<>>
    IN [contents |-> mapAnthropicMessagesToGeminiFormat(req.messages),
        systemInstruction |-> IF truthy /\ Len(parts) > 0
                              THEN Some([parts |-> parts]) ELSE hinted]

\* ------------------------------------------------------- JSON schema mapper
\* JSON values as [t, d, kv]: d is the text of a string, number, boolean or
\* null, kv the members of an object in insertion order, as pairs of key and
\* value, or the elements of an array, as pairs with an empty key
JStr(d) == [t |-> "str", d |-> d, kv |-> <<>>]

JBool(d) == [t |-> "bool", d |-> d, kv |-> <<>>]

JArr(items) ==
    [t |-> "arr", d |-> "", kv |-> [i \in 1..Len(items) |-> <<"", items[i]>>]]

Elements(v) == [i \in 1..Len(v.kv) |-> v.kv[i][2]]

Keys(v) == {v.kv[i][1] : i \in 1..Len(v.kv)}

HasKey(v, key) == v.t = "obj" /\ key \in Keys(v)

GetKey(v, key) == v.kv[CHOOSE i \in 1..Len(v.kv) : v.kv[i][1] = key][2]

\* result[key] = value
SetKey(v, key, value) ==
    IF key \in Keys(v)
    THEN [v EXCEPT !.kv = [i \in 1..Len(v.kv) |->
                             IF v.kv[i][1] = key THEN <<key, value>> ELSE v.kv[i]]]
    ELSE [v EXCEPT !.kv = Append(@, <<key, value>>)]

\* Object.assign(target, source)
RECURSIVE AssignEntries(_, _)
AssignEntries(target, entries) ==
    IF entries = <<>> THEN target
    ELSE AssignEntries(SetKey(target, Head(entries)[1], Head(entries)[2]),
                       Tail(entries))

ObjectAssign(target, source) ==
    IF source.t = "obj" THEN AssignEntries(target, source.kv) ELSE target

\* String(val)
StringOf(val) ==
    IF val.t = "obj" THEN JStr("[object Object]")
    ELSE IF val.t = "arr" THEN JStr("")
    ELSE JStr(val.d)

\* typeof constVal, for the type written beside a const
TypeOfConst(val) ==
    IF val.t = "str" THEN "string"
    ELSE IF val.t = "num" THEN "number"
    ELSE IF val.t = "bool" THEN "boolean"
    ELSE "string"

\* variant of UNSUPPORTED_KEYWORDS without title
UNSUPPORTED_KEYWORDS_WithoutTitle ==
    {"exclusiveMinimum", "exclusiveMaximum", "propertyNames", "minProperties",
     "maxProperties", "default", "$schema", "$id", "additionalProperties",
     "examples", "definitions"}

UNSUPPORTED_KEYWORDS ==
    {"exclusiveMinimum", "exclusiveMaximum", "propertyNames", "minProperties",
     "maxProperties", "default", "$schema", "$id", "additionalProperties",
     "title", "examples", "definitions"}

IsObject(v) == v.t \in {"obj", "arr"}

RECURSIVE convertJsonSchemaObject(_)
RECURSIVE ConvertEntries(_, _, _)
RECURSIVE ConvertProperties(_)
RECURSIVE ConvertAllOf(_, _)

\* the first entries of result: the enum and const of the schema
ConvertEnumAndConst(schema) ==
    LET r0 == JObj(<<>>)
        r1 == IF HasKey(schema, "enum") /\ GetKey(schema, "enum").t = "arr"
              THEN SetKey(SetKey(r0, "type", JStr("string")), "enum",
                          JArr([i \in 1..Len(GetKey(schema, "enum").kv) |->
                                  StringOf(Elements(GetKey(schema, "enum"))[i])]))
              ELSE r0
    IN IF HasKey(schema, "const")
       THEN LET constVal == GetKey(schema, "const")
            IN SetKey(SetKey(r1, "type", JStr(TypeOfConst(constVal))), "enum",
                      JArr(<<StringOf(constVal)>>))
       ELSE r1

\* for (const [propKey, propValue] of Object.entries(value))
ConvertProperties(entries) ==
    IF entries = <<>> THEN <<>>
    ELSE << <<Head(entries)[1], convertJsonSchemaObject(Head(entries)[2])>> >>
         \o ConvertProperties(Tail(entries))

\* for (const item of value) Object.assign(result, convertJsonSchemaObject(item))
ConvertAllOf(r, items) ==
    IF items = <<>> THEN r
    ELSE ConvertAllOf(ObjectAssign(r, convertJsonSchemaObject(Head(items))),
                      Tail(items))

\* result.type and result.enum for a oneOf or anyOf
ConvertUnion(r, value) ==
    LET localVal == Elements(value)
        consts == SelectSeq(localVal, LAMBDA item : HasKey(item, "const"))
        typed == {i \in 1..Len(localVal) : HasKey(localVal[i], "type")}
    IN IF Len(consts) = Len(localVal) /\ Len(consts) > 0
       THEN SetKey(SetKey(r, "type", JStr("string")), "enum",
                   JArr([i \in 1..Len(consts) |-> StringOf(GetKey(consts[i], "const"))]))
       ELSE SetKey(r, "type",
                   IF typed = {} THEN JStr("string")
                   ELSE GetKey(localVal[CHOOSE i \in typed : \A j \in typed : i <= j],
                               "type"))

\* result.type and result.nullable for a list of types
ConvertTypeList(r, value) ==
    LET nonNullTypes == SelectSeq(Elements(value), LAMBDA t : t # JStr("null"))
        first == IF nonNullTypes = <<>> THEN JStr("string") ELSE nonNullTypes[1]
    IN IF Len(nonNullTypes) = 1
       THEN IF Len(nonNullTypes) < Len(value.kv)
            THEN SetKey(SetKey(r, "type", first), "nullable", JBool("true"))
            ELSE SetKey(r, "type", first)
       ELSE SetKey(r, "type", first)

\* the loop over Object.entries(schema), result being r
ConvertEntries(schema, entries, r) ==
    IF entries = <<>> THEN r
    ELSE LET key == Head(entries)[1]
             value == Head(entries)[2]
             handled == (HasKey(schema, "enum") /\ GetKey(schema, "enum").t = "arr")
                        \/ HasKey(schema, "const")
             r1 == IF key \in UNSUPPORTED_KEYWORDS THEN r
                   ELSE IF key \in {"type", "enum"} /\ handled THEN r
                   ELSE IF key = "const" THEN r
                   ELSE IF key = "type" /\ value.t = "arr"
                   THEN ConvertTypeList(r, value)
                   ELSE IF key = "properties" /\ IsObject(value)
                   THEN SetKey(r, "properties",
                               JObj(ConvertProperties(value.kv)))
                   ELSE IF key = "items" /\ IsObject(value)
                   THEN SetKey(r, "items", convertJsonSchemaObject(value))
                   ELSE IF key = "allOf" /\ value.t = "arr"
                   THEN ConvertAllOf(r, Elements(value))
                   ELSE IF key \in {"oneOf", "anyOf"} /\ value.t = "arr"
                   THEN ConvertUnion(r, value)
                   ELSE SetKey(r, key, convertJsonSchemaObject(value))
         IN ConvertEntries(schema, Tail(entries), r1)

convertJsonSchemaObject(schema) ==
    IF ~IsObject(schema) THEN schema
    ELSE IF schema.t = "arr"
    THEN JArr([i \in 1..Len(schema.kv) |->
                 convertJsonSchemaObject(Elements(schema)[i])])
    ELSE ConvertEntries(schema, schema.kv, ConvertEnumAndConst(schema))

RECURSIVE resolveJsonSchemaDefinitions(_, _)
RECURSIVE ResolveEntries(_, _, _)

\* value.replace("#/definitions/", ""): a reference is kept as the name it
\* points to
ResolveEntries(entries, definitions, r) ==
    IF entries = <<>> THEN r
    ELSE LET key == Head(entries)[1]
             value == Head(entries)[2]
         IN IF key = "definitions"
            THEN ResolveEntries(Tail(entries), definitions, r)
            ELSE IF key = "$ref" /\ value.t = "str"
            THEN IF HasKey(definitions, value.d)
                 THEN resolveJsonSchemaDefinitions(GetKey(definitions, value.d),
                                                   definitions)
                 ELSE ResolveEntries(Tail(entries), definitions, r)
            ELSE IF key = "allOf" /\ value.t = "arr"
            THEN ResolveEntries(Tail(entries), definitions,
                   LET merge[i \in 0..Len(value.kv)] ==
                         IF i = 0 THEN r
                         ELSE ObjectAssign(merge[i - 1],
                                resolveJsonSchemaDefinitions(Elements(value)[i],
                                                             definitions))
                   IN merge[Len(value.kv)])
            ELSE ResolveEntries(Tail(entries), definitions,
                   SetKey(r, key, resolveJsonSchemaDefinitions(value, definitions)))

resolveJsonSchemaDefinitions(schema, definitions) ==
    IF ~IsObject(schema) THEN schema
    ELSE IF schema.t = "arr"
    THEN JArr([i \in 1..Len(schema.kv) |->
                 resolveJsonSchemaDefinitions(Elements(schema)[i], definitions)])
    ELSE ResolveEntries(schema.kv, definitions, JObj(<<>>))

mapJsonSchemaToGemini(schema) ==
    IF ~IsObject(schema) THEN schema
    ELSE IF HasKey(schema, "definitions")
    THEN convertJsonSchemaObject(
           resolveJsonSchemaDefinitions(schema, GetKey(schema, "definitions")))
    ELSE convertJsonSchemaObject(schema)

\* -------------------------------------------------------------- model mapper
\* a model name is its pieces: a stem and the bracketed suffixes after it
BudgetSuffix == "[1m]"

\* model.replace(/\[\d+m\]$/, "")
StripBudgetSuffix(model) ==
    IF Len(model) > 1 /\ model[Len(model)] = BudgetSuffix
    THEN SubSeq(model, 1, Len(model) - 1) ELSE model

modelAliases ==
    [m \in {"gemini-3-pro-high", "gemini-3-pro", "gemini-3-pro-preview",
            "gemini-3-flash", "gemini-3-flash-preview", "gemini-3",
            "gemini-2.5-flash-lite", "gemini-2.5-flash-lite-preview",
            "gemini-2.5-flash", "gemini-2.5-pro"} |->
        IF m \in {"gemini-3-pro-high", "gemini-3-pro", "gemini-3-pro-preview"}
        THEN "gemini-3-pro-preview"
        ELSE IF m \in {"gemini-3-flash", "gemini-3-flash-preview", "gemini-3"}
        THEN "gemini-3-flash-preview"
        ELSE IF m \in {"gemini-2.5-flash-lite", "gemini-2.5-flash-lite-preview"}
        THEN "gemini-2.5-flash-lite-preview"
        ELSE m]

\* stems of the names handed to the mapper, and those that start with "gemini-"
ModelStems ==
    {"gemini-3-pro-high", "gemini-3-pro-preview", "gemini-2.5-pro",
     "gemini-2.5-flash-lite", "gemini-exp", "claude-sonnet-4", "gpt-4o"}

StartsWithGemini(model) ==
    model[1] \in {"gemini-3-pro-high", "gemini-3-pro-preview", "gemini-2.5-pro",
                  "gemini-2.5-flash-lite", "gemini-exp"}

\* model is absent (None), null, or a name; null.replace throws a TypeError
mapModelToGemini(model) ==
    IF model = None THEN [returns |-> TRUE, model |-> <<"gemini-2.5-pro">>]
    ELSE IF model[1] = <<"null">> THEN [returns |-> FALSE, model |-> <<"TypeError">>]
    ELSE LET cleanModel == StripBudgetSuffix(model[1])
         IN IF Len(cleanModel) = 1 /\ cleanModel[1] \in DOMAIN modelAliases
            THEN [returns |-> TRUE, model |-> <<modelAliases[cleanModel[1]]>>]
            ELSE IF StartsWithGemini(cleanModel)
            THEN [returns |-> TRUE, model |-> cleanModel]
            ELSE [returns |-> TRUE, model |-> <<"gemini-2.5-pro">>]

\* ------------------------------------------------------ calls of the mappers
RECURSIVE SeqsUpTo(_, _)
SeqsUpTo(S, n) ==
    IF n = 0 THEN {<<>>}
    ELSE LET shorter == SeqsUpTo(S, n - 1)
         IN shorter \cup {Append(q, x) : q \in shorter, x \in S}

ToolArguments == JSONstringify(JObj(<< <<"a", JNum("1")>> >>))

HttpUrl == <<"https://example.com/cat.png">>

DataUrl == <<"data:", "image/png", ";base64,", "AAAA">>

OpenAIMessages ==
    {ChatMessage("user", StringContent(t)) : t \in {<<"h", "i">>, EmptyStr}}
    \cup {ChatMessage("user", ArrayContent(<<c>>)) :
            c \in {TextContent(<<"h", "i">>), ImageUrlContent(HttpUrl),
                   ImageUrlContent(DataUrl)}}
    \cup {ChatMessage("system", StringContent(<<"s">>)),
          ChatMessage("assistant", StringContent(<<"o", "k">>)),
          [ChatMessage("assistant", StringContent(EmptyStr)) EXCEPT
             !.tool_calls = <<ToolCall(0, 1, "f", ToolArguments)>>],
          [ChatMessage("assistant", StringContent(<<"o", "k">>)) EXCEPT
             !.tool_calls = <<ToolCall(0, 1, "f", ToolArguments),
                              ToolCall(1, 2, "g", ToolArguments)>>]}
    \cup {[ChatMessage("tool", StringContent(<<"r">>)) EXCEPT !.tool_call_id = id] :
            id \in 1..2}

InputContents ==
    {StringContent(<<"h", "i">>),
     ArrayContent(<<[type |-> "input_text", text |-> <<"h", "i">>, url |-> <<>>]>>),
     ArrayContent(<<[type |-> "input_image", text |-> EmptyStr, url |-> HttpUrl]>>)}

InputItems ==
    {MessageInput("user", c) : c \in InputContents}
    \cup {MessageInput("assistant", StringContent(<<"o", "k">>))}
    \cup {FunctionCallInput(id, IF id = 1 THEN "f" ELSE "g", ToolArguments) :
            id \in 1..2}
    \cup {FunctionCallOutputInput(id, <<"r">>) : id \in 1..2}

AnthropicMessages ==
    {ChatMessage("user", StringContent(t)) : t \in {<<"h", "i">>, EmptyStr}}
    \cup {ChatMessage("user", ArrayContent(<<[ContentOf("text") EXCEPT !.text = t]>>)) :
            t \in {<<"h", "i">>, <<" ">>}}
    \cup {ChatMessage("assistant", ArrayContent(<<ContentOf("thinking")>>)),
          ChatMessage("assistant",
             ArrayContent(<<[ContentOf("tool_use") EXCEPT
                               !.id = 1, !.name = "f",
                               !.input = JObj(<< <<"a", JNum("1")>> >>)]>>)),
          ChatMessage("user",
             ArrayContent(<<[ContentOf("image") EXCEPT
                               !.media_type = "image/png", !.data = "AAAA"]>>))}
    \cup {ChatMessage("user",
             ArrayContent(<<[ContentOf("tool_result") EXCEPT
                               !.tool_use_id = id, !.content = c]>>)) :
            id \in 1..2, c \in {None, Some(<<"r">>)}}

Systems ==
    {None, Some(StringContent(<<"s">>)),
     Some(ArrayContent(<<[ContentOf("text") EXCEPT !.text = <<"s">>]>>)),
     Some(ArrayContent(<<>>))}

LeafSchemas ==
    {JObj(<< <<"type", JStr("string")>> >>),
     JObj(<< <<"type", JStr("string")>>, <<"title", JStr("t")>> >>),
     JObj(<< <<"const", JNum("5")>> >>),
     JObj(<< <<"const", JStr("a")>> >>),
     JObj(<< <<"type", JStr("integer")>>, <<"enum", JArr(<<JNum("1"), JNum("2")>>)>> >>),
     JObj(<< <<"type", JArr(<<JStr("string"), JStr("null")>>)>> >>),
     JObj(<< <<"type", JArr(<<JStr("string"), JStr("number")>>)>> >>),
     JObj(<< <<"type", JStr("number")>>, <<"default", JNum("1")>>,
             <<"exclusiveMinimum", JNum("0")>> >>),
     JObj(<< <<"$schema", JStr("http://json-schema.org/draft-07/schema#")>>,
             <<"type", JStr("object")>> >>)}

\* the schemas that hold a schema; name is the name its definition gets, a
\* new one at every depth, so that no definition refers to itself
Wrappings(schema, name) ==
    {JObj(<< <<"type", JStr("object")>>,
             <<"properties", JObj(<< <<"title", schema>> >>)>>,
             <<"additionalProperties", JBool("false")>> >>),
     JObj(<< <<"type", JStr("array")>>, <<"items", schema>> >>),
     JObj(<< <<"allOf", JArr(<<schema, JObj(<< <<"examples", JArr(<<>>)>> >>)>>)>> >>),
     JObj(<< <<"oneOf", JArr(<<schema>>)>> >>),
     JObj(<< <<"anyOf", JArr(<<JObj(<< <<"const", JStr("b")>> >>), schema>>)>> >>),
     JObj(<< <<"definitions", JObj(<< <<name, schema>> >>)>>,
             <<"properties",
               JObj(<< <<"p", JObj(<< <<"$ref", JStr(name)>> >>)>> >>)>> >>)}

RECURSIVE SchemasOfDepth(_)
SchemasOfDepth(depth) ==
    IF depth = 0 THEN LeafSchemas
    ELSE LET inner == SchemasOfDepth(depth - 1)
             name == <<"d1", "d2", "d3", "d4">>[depth]
         IN inner \cup UNION {Wrappings(schema, name) : schema \in inner}

ModelNames ==
    {None, Some(<<"null">>)}
    \cup {Some(<<stem>> \o suffixes) :
            stem \in ModelStems, suffixes \in SeqsUpTo({BudgetSuffix}, MaxSuffixes)}

MapperCall(function, value) == Some([function |-> function, value |-> value])

MapperCalls ==
    {MapperCall("mapOpenAIChatCompletionRequestToGemini", [messages |-> messages]) :
        messages \in SeqsUpTo(OpenAIMessages, MaxMessages)}
    \cup {MapperCall("mapResponsesRequestToChatCompletion",
                     [instructions |-> i, input |-> items]) :
            i \in {None, Some(<<"s">>)}, items \in SeqsUpTo(InputItems, MaxMessages)}
    \cup {MapperCall("mapAnthropicMessagesRequestToGemini",
                     [messages |-> messages, tools |-> tools, system |-> system]) :
            messages \in SeqsUpTo(AnthropicMessages, MaxMessages),
            tools \in {0}, system \in {None}}
    \cup {MapperCall("mapAnthropicMessagesRequestToGemini",
                     [messages |-> messages, tools |-> tools, system |-> system]) :
            messages \in {<<>>} \cup {<<m>> : m \in AnthropicMessages},
            tools \in 0..1, system \in Systems}
    \cup {MapperCall("mapJsonSchemaToGemini", [schema |-> schema]) :
            schema \in SchemasOfDepth(MaxDepth)}
    \cup {MapperCall("mapModelToGemini", [model |-> model]) : model \in ModelNames}

InitMappers ==
    /\ InitProgram
    /\ fallbackTable = AUTO_SWITCH_MODEL_MAP
    /\ dispatch = NoDispatch
    /\ retried = None
    /\ argument \in MapperCalls
    /\ result = None
    /\ InitLater

\* the mapper named by the call has not returned yet
Called(function) ==
    /\ argument # None
    /\ argument[1].function = function
    /\ result = None

\* what a call of a mapper leaves alone
calleeVars ==
    <<clientVars, cooldownState, now, observed, fallbackTable, dispatch, retried,
      argument, laterVars>>

\* the value a mapper returns is kept in a record of its own, so that all
\* results are records
MapOpenAIRequest ==
    /\ Called("mapOpenAIChatCompletionRequestToGemini")
    /\ result' = Some([value |-> OpenAIContents(argument[1].value.messages)])
    /\ UNCHANGED calleeVars

MapResponsesRequest ==
    /\ Called("mapResponsesRequestToChatCompletion")
    /\ result' = Some([value |->
                         mapResponsesRequestToChatCompletion(argument[1].value)])
    /\ UNCHANGED calleeVars

MapAnthropicRequest ==
    /\ Called("mapAnthropicMessagesRequestToGemini")
    /\ result' = Some([value |->
                         mapAnthropicMessagesRequestToGemini(argument[1].value)])
    /\ UNCHANGED calleeVars

MapJsonSchema ==
    /\ Called("mapJsonSchemaToGemini")
    /\ result' = Some([value |-> mapJsonSchemaToGemini(argument[1].value.schema)])
    /\ UNCHANGED calleeVars

MapModel ==
    /\ Called("mapModelToGemini")
    /\ result' = Some([value |-> mapModelToGemini(argument[1].value.model)])
    /\ UNCHANGED calleeVars

NextMappers ==
    \/ MapOpenAIRequest
    \/ MapResponsesRequest
    \/ MapAnthropicRequest
    \/ MapJsonSchema
    \/ MapModel

SpecMappers == InitMappers /\ [][NextMappers]_vars

\* ------------------------------------------- references among definitions
\* resolveJsonSchemaDefinitions calls itself for every value it visits and,
\* at a $ref, for the definition referred to. MaxStack is the number of
\* nested calls the call stack has room for; the call that would need one
\* more makes the engine throw a RangeError, which nothing in the mapper
\* catches.
RangeError ==
    [t |-> "RangeError", d |-> "Maximum call stack size exceeded", kv |-> <<>>]

RECURSIVE ExhaustsStack(_, _, _)
RECURSIVE EntriesExhaustStack(_, _, _)

\* the loop over Object.entries(schema), run in a call that has frames nested
\* calls left: does one of the calls it makes run out of them
EntriesExhaustStack(entries, definitions, frames) ==
    IF entries = <<>> THEN FALSE
    ELSE LET key == Head(entries)[1]
             value == Head(entries)[2]
         IN IF key = "definitions"
            THEN EntriesExhaustStack(Tail(entries), definitions, frames)
            ELSE IF key = "$ref" /\ value.t = "str"
            THEN IF HasKey(definitions, value.d)
                 THEN ExhaustsStack(GetKey(definitions, value.d), definitions, frames)
                 ELSE EntriesExhaustStack(Tail(entries), definitions, frames)
            ELSE IF key = "allOf" /\ value.t = "arr"
            THEN \/ \E i \in 1..Len(value.kv) :
                        ExhaustsStack(Elements(value)[i], definitions, frames)
                 \/ EntriesExhaustStack(Tail(entries), definitions, frames)
            ELSE \/ ExhaustsStack(value, definitions, frames)
                 \/ EntriesExhaustStack(Tail(entries), definitions, frames)

\* the call resolveJsonSchemaDefinitions(schema, definitions), made where the
\* stack has room for frames more calls, runs out of stack
ExhaustsStack(schema, definitions, frames) ==
    IF frames = 0 THEN TRUE
    ELSE IF ~IsObject(schema) THEN FALSE
    ELSE IF schema.t = "arr"
    THEN \E i \in 1..Len(schema.kv) :
            ExhaustsStack(Elements(schema)[i], definitions, frames - 1)
    ELSE EntriesExhaustStack(schema.kv, definitions, frames - 1)

Ref(name) == JObj(<< <<"$ref", JStr(name)>> >>)

DefinitionNames == {"A", "B"}

\* what a definition may be: a leaf, a reference to a definition or to a name
\* that is not defined, and a reference under properties, items and allOf
DefinitionBodies ==
    {JObj(<< <<"type", JStr("string")>> >>), Ref("C")}
    \cup UNION {{Ref(name),
                 JObj(<< <<"type", JStr("object")>>,
                         <<"properties", JObj(<< <<"next", Ref(name)>> >>)>> >>),
                 JObj(<< <<"type", JStr("array")>>, <<"items", Ref(name)>> >>),
                 JObj(<< <<"allOf", JArr(<<Ref(name)>>)>> >>)} :
                name \in DefinitionNames}

\* finite schemas whose definitions A and B refer to nothing, to each other
\* or to themselves; the schema itself uses A or neither
ReferringSchemas ==
    {JObj(<< <<"definitions", JObj(<< <<"A", a>>, <<"B", b>> >>)>> >> \o use) :
        a \in DefinitionBodies, b \in DefinitionBodies,
        use \in {<< <<"$ref", JStr("A")>> >>,
                 << <<"properties", JObj(<< <<"p", Ref("A")>> >>)>> >>,
                 << <<"type", JStr("string")>> >>}}

InitReferences ==
    /\ InitProgram
    /\ fallbackTable = AUTO_SWITCH_MODEL_MAP
    /\ dispatch = NoDispatch
    /\ retried = None
    /\ argument \in {MapperCall("mapJsonSchemaToGemini", [schema |-> schema]) :
                        schema \in ReferringSchemas}
    /\ result = None
    /\ InitLater

\* mapJsonSchemaToGemini(schema) where the schema has definitions: the value
\* it returns, or the RangeError that leaves it
MapJsonSchemaOnStack ==
    /\ Called("mapJsonSchemaToGemini")
    /\ LET schema == argument[1].value.schema
       IN result' =
            Some([value |->
                    IF /\ HasKey(schema, "definitions")
                       /\ ExhaustsStack(schema, GetKey(schema, "definitions"),
                                        MaxStack)
                    THEN RangeError
                    ELSE mapJsonSchemaToGemini(schema)])
    /\ UNCHANGED calleeVars

NextReferences == MapJsonSchemaOnStack

SpecReferences == InitReferences /\ [][NextReferences]_vars

\* ------------------------------------- getCompletion and streamContent calls
\* One call of getCompletion or streamContent with the calls it makes for
\* fallback models. stack holds the calls that have not returned, the
\* innermost last; retrying says that the call is in its catch block, inside
\* handle*Fallback. invoked lists the models posted to the upstream, handled
\* the catch blocks the last error ran through.
Frame(fn, model) == [fn |-> fn, model |-> model, retrying |-> FALSE]

\* the calls the retry function of a frame makes: getCompletion calls
\* streamContent, which posts to the upstream
RetryFrames(fn, model) ==
    IF fn = "getCompletion"
    THEN <<Frame("getCompletion", model), Frame("streamContent", model)>>
    ELSE <<Frame("streamContent", model)>>

\* the error runs up the stack at the instant t. The catch of a frame in its
\* try block tests error instanceof GeminiApiError && !disableAutoModelSwitch
\* && isRateLimitError && shouldAttemptFallback, and calls handle*Fallback or
\* rethrows; a frame in its catch block lets the error through.
RECURSIVE Unwind(_, _, _, _, _)
Unwind(sw, table, error, cs, t) ==
    IF sw.stack = <<>>
    THEN [switching |-> [sw EXCEPT !.status = "failed", !.error = Some(error)],
          cooldownState |-> cs]
    ELSE LET frame == sw.stack[Len(sw.stack)]
             below == SubSeq(sw.stack, 1, Len(sw.stack) - 1)
             rateLimit == ~sw.disableAutoModelSwitch /\ isRateLimitError(error.statusCode)
             should == shouldAttemptFallback(table, cs, frame.model, t)
             attempt == rateLimit /\ should.result
             \* handle*Fallback: shouldAttemptFallback once more, then
             \* addRateLimitedModel, getFallbackModel and the retry function
             again == shouldAttemptFallback(table, should.cooldownState, frame.model, t)
             added == addRateLimitedModel(again.cooldownState, frame.model,
                                          error.statusCode, t)
             fallbackModel == getFallbackModel(table, frame.model)
             after == IF attempt THEN added
                      ELSE IF rateLimit THEN should.cooldownState ELSE cs
             record == [fn |-> frame.fn, model |-> frame.model, error |-> error,
                        enabled |-> ~sw.disableAutoModelSwitch,
                        fallback |-> fallbackModel,
                        inCooldown |-> isModelInCooldown(cs, frame.model, t).result,
                        before |-> cs, after |-> after,
                        retries |-> IF attempt /\ again.result
                                    THEN <<fallbackModel[1]>> ELSE <<>>,
                        rethrown |-> IF attempt THEN None ELSE Some(error)]
             seen == [sw EXCEPT !.handled = Append(@, record)]
         IN IF frame.retrying
            THEN Unwind([sw EXCEPT !.stack = below], table, error, cs, t)
            ELSE IF attempt
            THEN [switching |->
                    [seen EXCEPT
                       !.stack = Append(below, [frame EXCEPT !.retrying = TRUE])
                                 \o RetryFrames(frame.fn, fallbackModel[1]),
                       !.invoked = Append(@, fallbackModel[1])],
                  cooldownState |-> added]
            ELSE Unwind([seen EXCEPT !.stack = below], table, error, after, t)

\* a route handler calls getCompletion or streamContent for a model
CallClient(fn, model) ==
    /\ switching.status # "running"
    /\ switching.calls < MaxCalls
    /\ switching' = [switching EXCEPT
                       !.status = "running", !.stack = RetryFrames(fn, model),
                       !.invoked = <<model>>, !.handled = <<>>, !.error = None,
                       !.calls = @ + 1, !.started = now,
                       !.atStart = cooldownState]
    /\ UNCHANGED <<clientVars, cooldownState, now, observed, fallbackTable,
                   dispatch, retried, argument, result, restart, discovery>>

\* the upstream answers the innermost call and its stream ends: every call
\* on the stack returns
FrameAnswered ==
    /\ switching.status = "running"
    /\ switching' = [switching EXCEPT !.status = "completed", !.stack = <<>>,
                                      !.handled = <<>>]
    /\ UNCHANGED <<clientVars, cooldownState, now, observed, fallbackTable,
                   dispatch, retried, argument, result, restart, discovery>>

\* the upstream rejects the innermost call: streamContentInternal throws a
\* GeminiApiError with the status
FrameRejected(statusCode) ==
    /\ switching.status = "running"
    /\ LET model == switching.stack[Len(switching.stack)].model
           error == [statusCode |-> statusCode, model |-> model]
           r == Unwind([switching EXCEPT !.handled = <<>>], fallbackTable, error,
                       cooldownState, now)
       IN /\ switching' = r.switching
          /\ cooldownState' = r.cooldownState
    /\ UNCHANGED <<clientVars, now, observed, fallbackTable, dispatch, retried,
                   argument, result, restart, discovery>>

\* the two rate-limit statuses and one that is none
SwitchStatuses == RATE_LIMIT_STATUS_CODES \cup {500}

InitSwitch ==
    /\ InitProgram
    /\ fallbackTable \in FallbackTables
    /\ dispatch = NoDispatch
    /\ retried = None
    /\ argument = None
    /\ result = None
    /\ switching \in {[NoSwitching EXCEPT !.disableAutoModelSwitch = d] :
                         d \in BOOLEAN}
    /\ restart = NoRestart
    /\ discovery = NoDiscovery

NextSwitch ==
    \/ Tick(DEFAULT_COOLDOWN_MINUTES * 60 * 1000)
    \/ \E fn \in {"getCompletion", "streamContent"}, model \in FallbackModels :
          CallClient(fn, model)
    \/ FrameAnswered
    \/ \E statusCode \in SwitchStatuses : FrameRejected(statusCode)

SpecSwitch == InitSwitch /\ [][NextSwitch]_vars

\* ------------------------------------- streamContentInternal and its restart
\* One call of streamContentInternal from streamContent, which passes the
\* isRetry of its callers: the routes pass none, so it is false. posts lists
\* the statuses the upstream answered to the posts of the call, thrown the
\* statuses of the errors the calls so far have thrown.
CallStreamContentInternal(model) ==
    /\ restart.status # "posting"
    /\ restart.calls < MaxRequests
    /\ restart' = [restart EXCEPT !.status = "posting", !.isRetry = FALSE,
                                  !.model = model, !.posts = <<>>,
                                  !.invalidated = 0, !.error = None,
                                  !.calls = @ + 1]
    /\ UNCHANGED <<clientVars, cooldownState, now, observed, fallbackTable,
                   dispatch, retried, argument, result, switching, discovery>>

\* the statuses of the upstream: validateStatus passes 2xx and 400, and the
\* request rejects with err.response.status for the others
PostStatuses == {200, 400, 401, 429, 503}

\* variant of CatchRejected that restarts on every 401
CatchRejectedAgain(r, status) ==
    IF status = 401
    THEN [r EXCEPT !.access_token = FALSE, !.invalidated = @ + 1, !.isRetry = TRUE]
    ELSE [r EXCEPT !.status = "failed", !.error = Some(status),
                   !.thrown = Append(@, status)]

\* the catch of streamContentInternal for a rejected post: what it leaves of
\* the call. A 401 of a call that is no retry clears the access token and
\* calls streamContentInternal(request, true), whose errors leave the catch
\* block they are thrown in; a 429 and any other status throw a GeminiApiError
\* with the status.
CatchRejected(r, status) ==
    IF status = 401 /\ ~r.isRetry
    THEN [r EXCEPT !.access_token = FALSE, !.invalidated = @ + 1, !.isRetry = TRUE]
    ELSE [r EXCEPT !.status = "failed", !.error = Some(status),
                   !.thrown = Append(@, status)]

\* authClient.request posts with a token, a new one if credentials hold none,
\* and the upstream answers. A 400 is thrown as a GeminiApiError inside the
\* try block, and the catch, finding no err.response on it, throws status 500.
PostAnswered(status) ==
    /\ restart.status = "posting"
    /\ LET posted == [restart EXCEPT !.access_token = TRUE,
                                     !.posts = Append(@, status)]
       IN restart' =
            IF status = 200 THEN [posted EXCEPT !.status = "completed"]
            ELSE IF status = 400
            THEN [posted EXCEPT !.status = "failed", !.error = Some(500),
                                !.thrown = Append(@, 500)]
            ELSE CatchRejected(posted, status)
    /\ UNCHANGED <<clientVars, cooldownState, now, observed, fallbackTable,
                   dispatch, retried, argument, result, switching, discovery>>

NextRestart ==
    \/ \E model \in FallbackModels : CallStreamContentInternal(model)
    \/ \E status \in PostStatuses : PostAnswered(status)

SpecRestart == Init /\ [][NextRestart]_vars

\* ------------------------------------------------------- discoverProjectId
\* A project id is absent (None) or a string; the empty string is falsy.
\* onboardUser counts the calls of the endpoint in the running discovery, done
\* the responses among them that said done.
TruthyId(id) == id # None /\ id[1] # ""

discoveryVars ==
    <<clientVars, cooldownState, now, observed, fallbackTable, dispatch, retried,
      argument, result, switching, restart>>

\* await this.callEndpoint("loadCodeAssist", ...), unless a project id is at hand
DiscoverProjectId ==
    /\ discovery.status \in {"idle", "returned", "failed"}
    /\ LET d == [discovery EXCEPT !.retryCount = 0, !.onboardUser = 0, !.done = 0,
                                  !.lroResponse = None, !.returned = None,
                                  !.error = None, !.tierId = ""]
       IN discovery' =
            IF TruthyId(d.googleCloudProject)
            THEN [d EXCEPT !.status = "returned", !.returned = d.googleCloudProject]
            ELSE IF TruthyId(d.projectId)
            THEN [d EXCEPT !.status = "returned", !.returned = d.projectId]
            ELSE IF TruthyId(d.envProject)
            THEN [d EXCEPT !.status = "returned", !.projectId = d.envProject,
                           !.returned = d.envProject]
            ELSE [d EXCEPT !.status = "loadCodeAssist"]
    /\ UNCHANGED discoveryVars

\* catch (error) { throw new Error("Could not discover project ID.") }
DiscoveryFailed(d) ==
    [d EXCEPT !.status = "failed",
              !.error = Some("Could not discover project ID.")]

\* loadCodeAssist responses: the project, and the tiers as the id of the
\* tier marked default, if any
LoadResponses ==
    {[cloudaicompanionProject |-> p, defaultTier |-> t] :
        p \in {None, Some(""), Some("load-project")},
        t \in {None, Some("standard-tier")}}

LoadCodeAssistAnswered(loadResponse) ==
    /\ discovery.status = "loadCodeAssist"
    /\ discovery' =
          IF TruthyId(loadResponse.cloudaicompanionProject)
          THEN [discovery EXCEPT !.status = "returned",
                                 !.projectId = loadResponse.cloudaicompanionProject,
                                 !.returned = loadResponse.cloudaicompanionProject]
          ELSE [discovery EXCEPT !.status = "onboardUser",
                                 !.tierId = IF loadResponse.defaultTier # None
                                            THEN loadResponse.defaultTier[1]
                                            ELSE "free-tier"]
    /\ UNCHANGED discoveryVars

\* variant of KeepPolling that lets the count reach MAX_RETRIES
KeepPollingInclusive(retryCount) == retryCount <= MAX_RETRIES

\* while (retryCount < MAX_RETRIES)
KeepPolling(retryCount) == retryCount < MAX_RETRIES

\* the code after the loop: the timeout, the project id, the return
AfterPolling(d) ==
    IF d.lroResponse = None \/ ~d.lroResponse[1].done
    THEN DiscoveryFailed(d)
    ELSE LET id == d.lroResponse[1].id
         IN IF TruthyId(id)
            THEN [d EXCEPT !.status = "returned", !.projectId = id, !.returned = id]
            ELSE DiscoveryFailed([d EXCEPT !.projectId = id])

\* onboardUser responses: done, and response.cloudaicompanionProject.id
OnboardResponses ==
    {[done |-> done, id |-> id] :
        done \in BOOLEAN, id \in {None, Some(""), Some("onboard-project")}}

\* one turn of the loop: the call, the test of done, the second of sleep,
\* retryCount++ and the test of the loop
OnboardUserAnswered(lroResponse) ==
    /\ discovery.status = "onboardUser"
    /\ LET called == [discovery EXCEPT !.onboardUser = @ + 1,
                                       !.done = IF lroResponse.done THEN @ + 1 ELSE @,
                                       !.lroResponse = Some(lroResponse)]
           slept == [called EXCEPT !.retryCount = @ + 1]
       IN discovery' =
            IF lroResponse.done THEN AfterPolling(called)
            ELSE IF KeepPolling(slept.retryCount) THEN slept
            ELSE AfterPolling(slept)
    /\ UNCHANGED discoveryVars

\* callEndpoint throws a GeminiApiError for a response that is not ok
CallEndpointFails ==
    /\ discovery.status \in {"loadCodeAssist", "onboardUser"}
    /\ discovery' =
          DiscoveryFailed([discovery EXCEPT
                             !.onboardUser = IF discovery.status = "onboardUser"
                                             THEN @ + 1 ELSE @])
    /\ UNCHANGED discoveryVars

InitDiscovery ==
    /\ InitProgram
    /\ fallbackTable = AUTO_SWITCH_MODEL_MAP
    /\ dispatch = NoDispatch
    /\ retried = None
    /\ argument = None
    /\ result = None
    /\ switching = NoSwitching
    /\ restart = NoRestart
    /\ discovery \in {[NoDiscovery EXCEPT !.googleCloudProject = g, !.envProject = e] :
                         g \in {None, Some("configured-project")},
                         e \in {None, Some("env-project")}}

NextDiscovery ==
    \/ DiscoverProjectId
    \/ \E loadResponse \in LoadResponses : LoadCodeAssistAnswered(loadResponse)
    \/ \E lroResponse \in OnboardResponses : OnboardUserAnswered(lroResponse)
    \/ CallEndpointFails

SpecDiscovery == InitDiscovery /\ [][NextDiscovery]_vars

\* ------------------------------------------------- calls of signature-cache
\* The three maps of signature-cache.ts as one value, and the calls of the two
\* functions that write them, with any signature, family and tool id (0 is
\* the empty id). argument keeps the call and result the maps before it.
SignatureCaches ==
    [thinkingSignatureCache |-> thinkingSignatureCache,
     toolSignatureCache |-> toolSignatureCache,
     signatureFamilyMap |-> signatureFamilyMap]

cacheVars ==
    <<firstChunk, gen, chunks, uuid, upstream, request, consumed, emitter,
      response, partsRead, responses, openai, call, res, thrown, cooldownState,
      now, observed, fallbackTable, dispatch, retried, laterVars>>

CacheThinkingSignature(signature, modelFamily) ==
    /\ LET st == cacheThinkingSignature(SignatureCaches, signature, modelFamily)
       IN /\ thinkingSignatureCache' = st.thinkingSignatureCache
          /\ toolSignatureCache' = st.toolSignatureCache
          /\ signatureFamilyMap' = st.signatureFamilyMap
    /\ argument' = Some([function |-> "cacheThinkingSignature",
                         value |-> [signature |-> signature,
                                    modelFamily |-> modelFamily, toolId |-> 0]])
    /\ result' = Some([value |-> SignatureCaches])
    /\ UNCHANGED cacheVars

CacheToolSignature(toolId, signature) ==
    /\ LET st == cacheToolSignature(SignatureCaches, toolId, signature)
       IN /\ thinkingSignatureCache' = st.thinkingSignatureCache
          /\ toolSignatureCache' = st.toolSignatureCache
          /\ signatureFamilyMap' = st.signatureFamilyMap
    /\ argument' = Some([function |-> "cacheToolSignature",
                         value |-> [signature |-> signature, modelFamily |-> "",
                                    toolId |-> toolId]])
    /\ result' = Some([value |-> SignatureCaches])
    /\ UNCHANGED cacheVars

NextCache ==
    \/ \E signature \in ThoughtSignatures, modelFamily \in {"gemini", "claude"} :
          CacheThinkingSignature(signature, modelFamily)
    \/ \E toolId \in 0..2, signature \in ThoughtSignatures :
          CacheToolSignature(toolId, signature)

SpecCache == Init /\ [][NextCache]_vars

\* ================================================================ properties
EventsOf(type) == {i \in 1..Len(emitter.out) : emitter.out[i].type = type}

\* number of events of a type written before event i
Before(i, type) == Cardinality({j \in EventsOf(type) : j < i})

\* C1: at most one content block is open at a time; a content_block_start
\* comes only when no block is open and carries the number of blocks opened
\* before it (0, 1, 2, ...); every content_block_delta and content_block_stop
\* comes while exactly one block is open and carries that block's index; no
\* block is open when message_delta is written.
BlockLifecycle ==
    \A i \in 1..Len(emitter.out) :
        LET ev == emitter.out[i]
            starts == Before(i, "content_block_start")
            stops == Before(i, "content_block_stop")
        IN /\ ev.type = "content_block_start" =>
                 starts = stops /\ ev.index = starts
           /\ ev.type \in {"content_block_delta", "content_block_stop"} =>
                 starts = stops + 1 /\ ev.index = starts - 1
           /\ ev.type = "message_delta" => starts = stops

\* a finished stream with three blocks, the first of them a thinking block
BlockLifecycleWitness ==
    /\ emitter.ended
    /\ \E i \in EventsOf("content_block_start") :
          emitter.out[i].index = 0 /\ emitter.out[i].kind = "thinking"
    /\ \E i \in EventsOf("content_block_stop") : emitter.out[i].index = 2

\* C2: message_start is the first event and is written once; once the stream
\* has completed the last two events are message_delta and message_stop, each
\* written once, and neither is written before.
MessageEnvelope ==
    LET out == emitter.out
        n == Len(out)
    IN /\ n > 0 => out[1].type = "message_start"
       /\ EventsOf("message_start") \subseteq {1}
       /\ IF emitter.ended
          THEN /\ n >= 3
               /\ EventsOf("message_delta") = {n - 1}
               /\ EventsOf("message_stop") = {n}
          ELSE EventsOf("message_delta") \cup EventsOf("message_stop") = {}

\* a finished stream that carried two chunks with content
MessageEnvelopeWitness ==
    /\ emitter.ended
    /\ Cardinality({i \in 1..Len(chunks) : TruthyStr(chunks[i].delta.content)}) >= 2
    /\ Cardinality(EventsOf("content_block_start")) >= 2

\* the block a content_block_stop at position i closes: its content_block_start
StartOf(i) ==
    CHOOSE j \in EventsOf("content_block_start") :
        j < i /\ \A m \in EventsOf("content_block_start") : m < i => m <= j

Max(S) == CHOOSE x \in S : \A y \in S : y <= x

\* C3: when a thinking block is closed and a thought chunk handled while it
\* was open carried a valid signature, the event right before its
\* content_block_stop is the block's only signature_delta and carries the
\* last such signature; when none did, the block has no signature_delta.
ThinkingSignatureDelta ==
    \A i \in EventsOf("content_block_stop") :
        LET j == StartOf(i)
            out == emitter.out
            valid == {k \in 1..Len(chunks) :
                        /\ out[j].at <= k /\ k <= out[i].at
                        /\ chunks[k].delta.thought = TRUE
                        /\ isValidSignature(chunks[k].delta.thoughtSignature)}
            sigDeltas == {m \in (j + 1)..(i - 1) : out[m].kind = "signature_delta"}
        IN out[j].kind = "thinking" =>
              IF valid # {}
              THEN /\ sigDeltas = {i - 1}
                   /\ out[i - 1].signature = chunks[Max(valid)].delta.thoughtSignature
              ELSE sigDeltas = {}

StreamedToolUse ==
    \E i \in EventsOf("content_block_start") : emitter.out[i].kind = "tool_use"

StreamedStopReason == emitter.out[Len(emitter.out) - 1].stop_reason

MessageToolUse ==
    \E i \in 1..Len(response[1].content) : response[1].content[i].type = "tool_use"

\* C4: a streamed response that holds a tool_use block ends with stop_reason
\* "tool_use" in its message_delta, and one that holds none with "end_turn" or
\* "max_tokens"; the same for the stop_reason of a non-streamed message.
StopReasonToolUse ==
    /\ (request.mode = "stream" /\ emitter.ended) =>
          IF StreamedToolUse THEN StreamedStopReason = "tool_use"
          ELSE StreamedStopReason \in {"end_turn", "max_tokens"}
    /\ (request.mode = "nonstream" /\ response # None) =>
          IF MessageToolUse THEN response[1].stop_reason = "tool_use"
          ELSE response[1].stop_reason \in {"end_turn", "max_tokens"}

\* a finished stream with text and a tool call, closed with "tool_use"
StopReasonToolUseWitness ==
    /\ request.mode = "stream" /\ emitter.ended
    /\ StreamedToolUse
    /\ \E i \in EventsOf("content_block_start") : emitter.out[i].kind = "text"
    /\ StreamedStopReason = "tool_use"

CarriedContent ==
    \E k \in 1..Len(chunks) :
        TruthyStr(chunks[k].delta.content) \/ TruthyObj(chunks[k].delta.tool_calls)

\* C5: a completed stream is never empty: when no chunk carried content or a
\* tool call the events are message_start and one text block at index 0 with
\* the placeholder text; otherwise at least one content block is written.
NeverEmptyMessage ==
    LET out == emitter.out
    IN (request.mode = "stream" /\ emitter.ended) =>
          IF ~CarriedContent
          THEN /\ Len(out) = 6
               /\ out[1].type = "message_start"
               /\ out[2].type = "content_block_start"
               /\ out[2].kind = "text" /\ out[2].index = 0
               /\ out[3].type = "content_block_delta"
               /\ out[3].kind = "text_delta" /\ out[3].index = 0
               /\ out[3].text = NoResponseText
               /\ out[4].type = "content_block_stop" /\ out[4].index = 0
          ELSE /\ EventsOf("content_block_start") # {}
               /\ EventsOf("content_block_stop") # {}

ThinkingStarts == {k \in 1..Len(chunks) : chunks[k].delta.thinkingStart}

ThinkingEnds == {k \in 1..Len(chunks) : chunks[k].delta.thinkingEnd}

\* C6: a chunk with _thinkingStart comes only when no thinking block is open,
\* a chunk with _thinkingEnd only when one is open, and every other chunk that
\* is not a thought chunk, the terminal chunk included, only when none is open.
ThinkingPaired ==
    \A k \in 1..Len(chunks) :
        LET open == Cardinality({i \in ThinkingStarts : i < k})
                    - Cardinality({i \in ThinkingEnds : i < k})
            d == chunks[k].delta
        IN /\ d.thinkingStart => open = 0
           /\ d.thinkingEnd => open = 1
           /\ (~d.thought /\ ~d.thinkingEnd) => open = 0

\* C7: in every response that starts with a content or tool-call chunk, that
\* first chunk carries role "assistant", and no later chunk carries a role.
FirstChunkRole ==
    /\ (Len(chunks) > 0 /\ chunks[1].finish_reason = "null") =>
          chunks[1].delta.role = "assistant"
    /\ \A k \in 2..Len(chunks) : chunks[k].delta.role = "undefined"

\* C8: a chunk with a non-null finish_reason, or with usage, is the last chunk
\* of a finished stream, and every finished stream ends with a chunk that has
\* a non-null finish_reason.
FinishOnLast ==
    /\ \A k \in 1..Len(chunks) :
          (chunks[k].finish_reason # "null" \/ chunks[k].usage # None) =>
              k = Len(chunks) /\ gen.status = "done"
    /\ gen.status = "done" =>
          Len(chunks) > 0 /\ chunks[Len(chunks)].finish_reason # "null"

\* a finished stream of three chunks or more whose last chunk carries usage
FinishOnLastWitness ==
    /\ gen.status = "done"
    /\ Len(chunks) >= 3
    /\ chunks[Len(chunks)].usage # None

\* C9: the terminal chunk says "tool_calls" exactly when a tool-call chunk
\* came before it; otherwise it says "length" when the upstream reported
\* MAX_TOKENS and "stop" when it did not.
TerminalFinishReason ==
    gen.status = "done" =>
        LET n == Len(chunks)
            tools == \E k \in 1..(n - 1) : TruthyObj(chunks[k].delta.tool_calls)
        IN /\ chunks[n].finish_reason = "tool_calls" <=> tools
           /\ ~tools => chunks[n].finish_reason =
                 IF upstream.finishReason = Some("MAX_TOKENS") THEN "length"
                 ELSE "stop"

ToolCallIndexes ==
    {tc.index : tc \in UNION {{chunks[k].delta.tool_calls[1][i] :
                                  i \in 1..Len(chunks[k].delta.tool_calls[1])} :
                              k \in {x \in 1..Len(chunks) :
                                        TruthyObj(chunks[x].delta.tool_calls)}}}

RECURSIVE ArgumentsOf(_, _)
ArgumentsOf(toolCalls, index) ==
    IF toolCalls = <<>> THEN EmptyStr
    ELSE (IF Head(toolCalls).index = index THEN Head(toolCalls).arguments
          ELSE EmptyStr) \o ArgumentsOf(Tail(toolCalls), index)

\* C10: the argument deltas emitted at one tool-call index concatenate to a
\* string that parses as one JSON value.
ToolArgumentsParse ==
    \A index \in ToolCallIndexes :
        JSONparses(ArgumentsOf(ConcatToolCalls(chunks), index))

\* a chunk that is neither a _thinkingEnd marker nor the terminal chunk
IsPartChunk(chunk) ==
    chunk.finish_reason = "null" /\ ~chunk.delta.thinkingEnd

\* the chunk carries what the part carries
ChunkOfPart(chunk, part) ==
    LET d == chunk.delta
    IN IF part.kind = "text"
       THEN /\ d.content = Some(part.text)
            /\ d.tool_calls = None
            /\ d.thought = part.thought
            /\ d.thoughtSignature = (IF part.thought THEN part.thoughtSignature
                                     ELSE SigNone)
       ELSE /\ d.content = None
            /\ d.tool_calls # None
            /\ Len(d.tool_calls[1]) = 1
            /\ d.tool_calls[1][1].name = part.name
            /\ d.tool_calls[1][1].arguments = JSONstringify(part.args)
            /\ d.tool_calls[1][1].thoughtSignature = part.thoughtSignature

\* C11: the chunks of a response other than the _thinkingEnd markers and the
\* terminal chunk are, in order and one for one, the text and functionCall
\* parts received from the upstream; a _thinkingEnd marker carries nothing
\* but empty content and the terminal chunk carries no content at all.
UpstreamOrderPreserved ==
    LET partChunks == SelectSeq(chunks, IsPartChunk)
    IN /\ Len(partChunks) = Len(upstream.parts)
       /\ \A i \in 1..Len(partChunks) : ChunkOfPart(partChunks[i], upstream.parts[i])
       /\ \A k \in 1..Len(chunks) :
             /\ chunks[k].delta.thinkingEnd =>
                   chunks[k].delta = closingDelta /\ chunks[k].finish_reason = "null"
             /\ chunks[k].finish_reason # "null" => chunks[k].delta = EmptyDelta

\* a finished response built from a thought part, an empty text part and a
\* functionCall part
UpstreamOrderPreservedWitness ==
    /\ gen.status = "done"
    /\ Len(upstream.parts) = 3
    /\ upstream.parts[1].thought
    /\ upstream.parts[2].kind = "text" /\ upstream.parts[2].text = EmptyStr
    /\ upstream.parts[3].kind = "functionCall"
    /\ upstream.finishReason # None

ResponseEventsOf(type) ==
    {i \in 1..Len(responses.out) : responses.out[i].type = type}

\* positions of the output_item.added / output_item.done events of item id
AddedOf(id) ==
    {i \in ResponseEventsOf("response.output_item.added") : responses.out[i].item[1].id = id}

DoneOf(id) ==
    {i \in ResponseEventsOf("response.output_item.done") : responses.out[i].item[1].id = id}

\* an item of the given type is open just before event i: announced, not done
OpenBefore(i, type, outputIndex) ==
    \E j \in ResponseEventsOf("response.output_item.added") :
        /\ j < i
        /\ responses.out[j].item[1].type = type
        /\ outputIndex >= 0 => responses.out[j].output_index = outputIndex
        /\ \A k \in DoneOf(responses.out[j].item[1].id) : k > i

\* C12: an item is done at most once and only after it was added; when
\* response.completed is written every added item has been done exactly once;
\* an output_text.delta comes only while the message item is open and a
\* function_call_arguments.delta only while a function_call item with its
\* output_index is open.
ResponsesItemLifecycle ==
    LET out == responses.out
    IN /\ \A k \in ResponseEventsOf("response.output_item.done") :
             /\ \E j \in AddedOf(out[k].item[1].id) : j < k
             /\ DoneOf(out[k].item[1].id) = {k}
       /\ \A i \in ResponseEventsOf("response.output_text.delta") :
             OpenBefore(i, "message", -1)
       /\ \A i \in ResponseEventsOf("response.function_call_arguments.delta") :
             OpenBefore(i, "function_call", out[i].output_index)
       /\ \A c \in ResponseEventsOf("response.completed") :
             \A j \in ResponseEventsOf("response.output_item.added") :
                 \E k \in DoneOf(out[j].item[1].id) : j < k /\ k < c

\* the function_call items among the events of a type, in the order written
FunctionCallItemsOf(type) ==
    LET fc == SelectSeq(responses.out,
                  LAMBDA ev : ev.type = type /\ ev.item # None
                              /\ ev.item[1].type = "function_call")
    IN [i \in 1..Len(fc) |-> fc[i].item[1]]

CompletedFunctionCalls ==
    SelectSeq(responses.out[Len(responses.out)].output,
              LAMBDA item : item.type = "function_call")

\* the item is the call: same name, call_id and arguments
ItemOfCall(item, tc) ==
    item.name = tc.name /\ item.call_id = tc.id /\ item.arguments = tc.arguments

\* C13: when the Responses stream has completed, the function_call items
\* added, the ones done and the ones listed in response.completed are each as
\* many as the tool calls the chunks carried, and the listed items and the
\* upstream calls match one for one in name, call_id and arguments.
ToolCallItemPerCall ==
    responses.ended =>
        LET calls == ConcatToolCalls(chunks)
            listed == CompletedFunctionCalls
        IN /\ Len(FunctionCallItemsOf("response.output_item.added")) = Len(calls)
           /\ Len(FunctionCallItemsOf("response.output_item.done")) = Len(calls)
           /\ Len(listed) = Len(calls)
           /\ \A i \in 1..Len(listed) : ItemOfCall(listed[i], calls[i])

\* C14: no two items are added with the same output_index; every event that
\* carries an item, and every delta or done event of an item's text or
\* arguments, carries the output_index its item was added with; the item at
\* position i of response.completed.output is the item added with index i.
OutputIndexConsistent ==
    LET out == responses.out
        added == ResponseEventsOf("response.output_item.added")
    IN /\ \A i, j \in added : out[i].output_index = out[j].output_index => i = j
       /\ \A k \in ResponseEventsOf("response.output_item.done") :
             \E j \in AddedOf(out[k].item[1].id) :
                 out[j].output_index = out[k].output_index
       /\ \A k \in ResponseEventsOf("response.output_text.delta")
                   \cup ResponseEventsOf("response.output_text.done")
                   \cup ResponseEventsOf("response.content_part.added")
                   \cup ResponseEventsOf("response.content_part.done") :
             \E j \in added : /\ j < k
                              /\ out[j].item[1].type = "message"
                              /\ out[j].output_index = out[k].output_index
       /\ \A k \in ResponseEventsOf("response.function_call_arguments.delta")
                   \cup ResponseEventsOf("response.function_call_arguments.done") :
             \E j \in added : /\ j < k
                              /\ out[j].item[1].type = "function_call"
                              /\ out[j].output_index = out[k].output_index
       /\ \A c \in ResponseEventsOf("response.completed") :
             \A i \in 1..Len(out[c].output) :
                 \E j \in AddedOf(out[c].output[i].id) : out[j].output_index = i - 1

\* C15: the data events written so far are the first chunks of the stream, in
\* order and one event per chunk; [DONE] is written only as the last event of
\* an ended response, after a data event for every chunk, and once written
\* nothing is pending in the TransformStream.
ChatStreamDelivery ==
    LET out == openai.out
    IN /\ \A i \in 1..Len(out) :
             IF out[i].done
             THEN i = Len(out) /\ openai.ended /\ i = Len(chunks) + 1
                  /\ gen.status = "done"
             ELSE i <= Len(chunks) /\ out[i] = DataEvent(chunks[i])
       /\ openai.ended =>
             /\ Len(out) > 0 /\ out[Len(out)] = DoneEvent
             /\ openai.writable = <<>> /\ openai.readable = <<>>

\* an ended response of three chunks or more with a tool call among them
ChatStreamDeliveryWitness ==
    /\ openai.ended
    /\ Len(chunks) >= 3
    /\ Len(openai.out) = Len(chunks) + 1
    /\ \E k \in 1..Len(chunks) : TruthyObj(chunks[k].delta.tool_calls)

\* the HTTP status the client sees: 200 unless res.status was called
HttpStatus == IF res.statusCode # 0 THEN res.statusCode ELSE 200

\* the request was answered after streamContent threw a 429 error
RateLimited ==
    res.ended /\ thrown # None /\ thrown[1].statusCode = 429

\* C16: a request whose upstream call failed with 429 is answered, on the
\* Anthropic route with stream true or false, with status 400 and an
\* invalid_request_error body, and on the chat-completions route with status
\* 500; the message of the body is the client's RESOURCE_EXHAUSTED message
\* with its reset estimate.
RateLimitSurfaced ==
    RateLimited =>
        /\ call.dialect = "anthropic" =>
              /\ HttpStatus = 400
              /\ res.body # None
              /\ res.body[1].type = "invalid_request_error"
              /\ res.body[1].message = thrown[1].message
        /\ call.dialect = "openai" =>
              /\ HttpStatus = 500
              /\ res.body # None
              /\ res.body[1].message = thrown[1].message

\* the response headers had been sent when the stream failed
FailedAfterHeaders ==
    /\ res.ended /\ thrown # None
    /\ \/ request.mode \in {"stream", "responses"}
       \/ request.mode = "openai" /\ Len(openai.out) > 0

\* C17: a streaming response that failed after its headers were sent ends
\* with one error event of its dialect carrying the error's message, and
\* res.status is not called.
StreamAbortedEvent ==
    FailedAfterHeaders =>
        /\ res.errorEvent # None
        /\ res.errorEvent[1].message = thrown[1].message
        /\ res.statusCode = 0
        /\ res.body = None

\* the request fails the dialect's validation (the model being allowed)
InvalidRequest ==
    \/ /\ call.dialect = "anthropic" /\ call.allowed
       /\ call.body.messages \in {"missing", "empty"} \/ ~call.body.max_tokens
    \/ /\ call.dialect = "openai"
       /\ call.body.messages \in {"missing", "empty"}

\* C18: a request that fails validation is answered with status 400 and an
\* error body (of type invalid_request_error on the Anthropic route), and
\* neither discoverProjectId nor streamGenerateContent is called for it.
ValidationRejects ==
    InvalidRequest =>
        /\ res.ended
        /\ res.statusCode = 400
        /\ res.body # None
        /\ call.dialect = "anthropic" =>
              res.body[1].shape = "anthropic"
              /\ res.body[1].type = "invalid_request_error"
        /\ call.discoverProjectId = 0
        /\ call.streamGenerateContent = 0
        /\ gen.status = "idle"

\* C19: once the downstream client has disconnected from a streaming
\* response, the generator yields at most the one chunk that was being
\* awaited and nothing after it: the upstream is read no further.
DisconnectStops ==
    call.disconnectedAt # -1 => Len(chunks) <= call.disconnectedAt + 1

\* C20: at every time, isModelInCooldown(M) is true exactly when M has been
\* rate-limited and less than 10 minutes have passed since its last
\* addRateLimitedModel; in particular it is false for a model never
\* rate-limited, and a new observation restarts the window.
CooldownWindow ==
    \A model \in CooldownModels :
        isModelInCooldown(cooldownState, model, now).result
        <=> /\ model \in DOMAIN observed
            /\ now - observed[model] < 10 * 60 * 1000

\* ten minutes after the start, a model observed twice is still in cooldown
\* and the other, its window over, is not
CooldownWindowWitness ==
    /\ now >= 10 * 60 * 1000
    /\ \E m1, m2 \in DOMAIN observed :
          /\ m1 \in DOMAIN cooldownState
          /\ Len(cooldownState[m1].statusCodes) = 2
          /\ observed[m1] > 0
          /\ isModelInCooldown(cooldownState, m1, now).result
          /\ now - observed[m2] = 10 * 60 * 1000
          /\ ~isModelInCooldown(cooldownState, m2, now).result


RECURSIVE ChainFrom(_, _, _)
ChainFrom(table, model, seen) ==
    IF model \in seen THEN <<>>
    ELSE <<model>> \o (IF model \in DOMAIN table
                       THEN ChainFrom(table, table[model], seen \cup {model})
                       ELSE <<>>)

Returned(function) ==
    argument # None /\ argument[1].function = function /\ result # None

\* C23: in the OpenAI request mapper every tool message whose tool_call_id
\* matches a tool call of an earlier assistant message becomes a
\* functionResponse part named after that tool call's function, also when
\* several tool messages follow one assistant message; the name "unknown" is
\* used only when no earlier message contains the id.
ToolResponseNamed ==
    Returned("mapOpenAIChatCompletionRequestToGemini") =>
        LET messages == SelectSeq(argument[1].value.messages,
                                  LAMBDA m : ~isSystemMessage(m))
            contents == result[1].value
        IN \A i \in 1..Len(messages) :
              messages[i].role = "tool" =>
                 LET calls == UNION {{<<j, k>> : k \in 1..Len(messages[j].tool_calls)} :
                                       j \in 1..(i - 1)}
                     names == {messages[c[1]].tool_calls[c[2]].name :
                                 c \in {c \in calls :
                                          messages[c[1]].tool_calls[c[2]].id
                                          = messages[i].tool_call_id}}
                     part == contents[i].parts[1]
                 IN /\ part.kind = "functionResponse"
                    /\ IF names = {} THEN part.name = "unknown"
                       ELSE part.name \in names


\* C24: mapResponsesRequestToChatCompletion preserves the order of the input
\* items: every maximal run of consecutive function_call items becomes exactly
\* one assistant message whose tool_calls list those items in input order
\* with index 0..k-1, every function_call_output becomes its own tool message
\* with tool_call_id equal to its call_id, every message item becomes one
\* message, and no item is dropped or emitted twice.
InputOrderPreserved ==
    Returned("mapResponsesRequestToChatCompletion") =>
        LET items == argument[1].value.input
            messages == result[1].value
            offset == IF argument[1].value.instructions # None THEN 1 ELSE 0
            Starts(i) == \/ items[i].type # "function_call"
                         \/ i = 1
                         \/ items[i - 1].type # "function_call"
            Owner(i) == offset + Cardinality({j \in 1..i : Starts(j)})
            Run(i) == {j \in 1..Len(items) : Owner(j) = Owner(i)}
        IN /\ Len(messages) = offset + Cardinality({j \in 1..Len(items) : Starts(j)})
           /\ \A i \in 1..Len(items) :
                 LET item == items[i]
                     message == messages[Owner(i)]
                 IN /\ item.type = "message" =>
                          /\ message.role = item.role
                          /\ message.tool_calls = <<>>
                          /\ message.content.kind = item.content.kind
                          /\ message.content.text = item.content.text
                          /\ Len(message.content.items) = Len(item.content.items)
                    /\ item.type = "function_call_output" =>
                          /\ message.role = "tool"
                          /\ message.tool_call_id = item.call_id
                          /\ message.content.text = item.output
                    /\ item.type = "function_call" =>
                          LET k == Cardinality({j \in Run(i) : j <= i})
                          IN /\ message.role = "assistant"
                             /\ Len(message.tool_calls) = Cardinality(Run(i))
                             /\ message.tool_calls[k] =
                                   ToolCall(k - 1, item.call_id, item.name,
                                            item.arguments)

\* a run of two function_call items became one assistant message and the
\* function_call_output after it a tool message
InputOrderPreservedWitness ==
    /\ Returned("mapResponsesRequestToChatCompletion")
    /\ Len(argument[1].value.input) = 3
    /\ argument[1].value.input[1].type = "function_call"
    /\ argument[1].value.input[2].type = "function_call"
    /\ argument[1].value.input[3].type = "function_call_output"
    /\ \E i \in 1..Len(result[1].value) :
          /\ Len(result[1].value[i].tool_calls) = 2
          /\ i < Len(result[1].value)
          /\ result[1].value[i + 1].role = "tool"


\* C25: every content turn of every Gemini request produced by a request
\* mapper (OpenAI chat, Responses via the chat adapter, Anthropic) carries at
\* least one part, whatever the inbound message content is.
TurnsCarryParts ==
    /\ Returned("mapOpenAIChatCompletionRequestToGemini") =>
          \A i \in 1..Len(result[1].value) : Len(result[1].value[i].parts) >= 1
    /\ Returned("mapAnthropicMessagesRequestToGemini") =>
          \A i \in 1..Len(result[1].value.contents) :
             Len(result[1].value.contents[i].parts) >= 1
    /\ Returned("mapResponsesRequestToChatCompletion") =>
          LET contents == OpenAIContents(result[1].value)
          IN \A i \in 1..Len(contents) : Len(contents[i].parts) >= 1


\* the pieces of text of a system instruction, if there is one
InstructionTexts(systemInstruction) ==
    IF systemInstruction = None THEN {}
    ELSE {systemInstruction[1].parts[i].text :
            i \in 1..Len(systemInstruction[1].parts)}

\* C26: for every Anthropic request that declares at least one tool, with or
\* without a system field, the systemInstruction of the resulting Gemini
\* request contains the interleaved-thinking hint text, appended after any
\* system text supplied by the request.
HintWithTools ==
    (Returned("mapAnthropicMessagesRequestToGemini") /\ argument[1].value.tools > 0) =>
        \E text \in InstructionTexts(result[1].value.systemInstruction) :
           \E i \in 1..Len(text) : text[i] = InterleavedThinkingHint[1]


\* the keys a value carries as schema keywords at any nesting level: the
\* keys under properties are names of properties, not keywords
RECURSIVE KeywordsOf(_)
KeywordsOf(v) ==
    IF v.t = "arr" THEN UNION {KeywordsOf(v.kv[i][2]) : i \in 1..Len(v.kv)}
    ELSE IF v.t = "obj"
    THEN Keys(v) \cup
         UNION {IF v.kv[i][1] = "properties" /\ v.kv[i][2].t = "obj"
                THEN UNION {KeywordsOf(v.kv[i][2].kv[j][2]) :
                              j \in 1..Len(v.kv[i][2].kv)}
                ELSE KeywordsOf(v.kv[i][2]) : i \in 1..Len(v.kv)}
    ELSE {}

RECURSIVE SameJson(_, _)
SameJson(a, b) ==
    /\ a.t = b.t
    /\ a.d = b.d
    /\ Len(a.kv) = Len(b.kv)
    /\ IF a.t = "obj"
       THEN /\ Keys(a) = Keys(b)
            /\ \A key \in Keys(a) : SameJson(GetKey(a, key), GetKey(b, key))
       ELSE \A i \in 1..Len(a.kv) : SameJson(a.kv[i][2], b.kv[i][2])

\* C28: mapJsonSchemaToGemini is idempotent: for every input schema s,
\* mapJsonSchemaToGemini(mapJsonSchemaToGemini(s)) is structurally equal to
\* mapJsonSchemaToGemini(s), up to object key order.
SchemaMapperIdempotent ==
    Returned("mapJsonSchemaToGemini") =>
        SameJson(mapJsonSchemaToGemini(result[1].value), result[1].value)

\* C29: mapModelToGemini returns a canonical Gemini model id for every input:
\* a null or absent name and every name not starting with "gemini-" yield
\* gemini-2.5-pro, and for every other name the result carries no bracketed
\* budget suffix and is not an alias that the alias table maps to a different
\* id, so that resolving the result again returns it unchanged.
ModelCanonical ==
    Returned("mapModelToGemini") =>
        LET model == argument[1].value.model
            out == result[1].value
        IN /\ out.returns
           /\ IF model = None \/ model[1] = <<"null">> \/ ~StartsWithGemini(model[1])
              THEN out.model = <<"gemini-2.5-pro">>
              ELSE /\ Len(out.model) = 1
                   /\ out.model[1] \in DOMAIN modelAliases
                        => modelAliases[out.model[1]] = out.model[1]
                   /\ mapModelToGemini(Some(out.model)) = out

ToolUseStarts ==
    {i \in EventsOf("content_block_start") : emitter.out[i].kind = "tool_use"}

\* C30: if the signature cache holds a signature for tool id T, every
\* Anthropic event emitted for the tool call T (its content_block_start with
\* the tool_use block) carries that signature.
CachedToolSignatureCarried ==
    \A i \in ToolUseStarts :
        emitter.out[i].id \in DOMAIN toolSignatureCache
            => emitter.out[i].signature = toolSignatureCache[emitter.out[i].id]

\* a stream with two tool calls: the first came with a valid signature, which
\* is cached under its id and written on its block; the second came with
\* none, and its id is not in the cache
CachedToolSignatureCarriedWitness ==
    \E i, j \in ToolUseStarts :
        /\ i < j
        /\ emitter.out[i].id \in DOMAIN toolSignatureCache
        /\ isValidSignature(emitter.out[i].signature)
        /\ emitter.out[j].id \notin DOMAIN toolSignatureCache
        /\ emitter.out[j].signature = SigNone

\* the handler of a rate-limit error did what it does for a model with a
\* fallback that is not in cooldown, or what it does for any other model
HandledAsClaimed(h) ==
    IF h.fallback # None /\ ~h.inCooldown
    THEN /\ h.model \in DOMAIN h.after
         /\ \E k \in 1..Len(h.after[h.model].statusCodes) :
               h.after[h.model].statusCodes[k] = h.error.statusCode
         /\ h.retries = <<h.fallback[1]>>
         /\ h.rethrown = None
    ELSE /\ h.rethrown = Some(h.error)
         /\ h.retries = <<>>
         /\ DOMAIN h.after \subseteq DOMAIN h.before

\* C31: when a call for model M fails with a rate-limit status (429 or 503)
\* and auto-switching is enabled: if M has a fallback entry F and M is not in
\* cooldown, M is recorded in cooldown with that status before the retry and
\* the retry function is invoked exactly once with the request's model
\* replaced by F; if M has no fallback entry or is already in cooldown, the
\* original error propagates to the caller, no retry is made and no model is
\* added to the cooldown state.
FallbackOnRateLimit ==
    \A i \in 1..Len(switching.handled) :
        LET h == switching.handled[i]
        IN (h.enabled /\ h.error.statusCode \in {429, 503}) =>
              /\ HandledAsClaimed(h)
              /\ (h.retries # <<>>) =>
                    /\ i = Len(switching.handled)
                    /\ switching.status = "running"
                    /\ switching.stack[Len(switching.stack)].model = h.fallback[1]
                    /\ switching.invoked[Len(switching.invoked)] = h.fallback[1]
                    /\ cooldownState = h.after
              /\ (h.retries = <<>> /\ i = Len(switching.handled)) =>
                    /\ switching.status = "failed"
                    /\ switching.error = Some(h.error)

\* a getCompletion call for a model with a fallback was rejected with 503 and
\* retried, the retry was rejected with 429, and the error of the retry ran
\* through the catch of streamContent for the fallback model, which has no
\* fallback, and through the catch of getCompletion for the first model, which
\* is in cooldown by then
FallbackOnRateLimitWitness ==
    /\ switching.status = "failed"
    /\ Len(switching.invoked) = 2
    /\ Len(switching.handled) = 2
    /\ switching.handled[1].fallback = None
    /\ switching.handled[1].error.statusCode = 429
    /\ switching.handled[2].fn = "getCompletion"
    /\ switching.handled[2].inCooldown
    /\ switching.handled[2].fallback # None
    /\ switching.handled[2].model = switching.invoked[1]
    /\ \E k \in 1..Len(cooldownState[switching.invoked[1]].statusCodes) :
          cooldownState[switching.invoked[1]].statusCodes[k] = 503

\* no cooldown has run out since the call began
NoCooldownExpired ==
    /\ now - switching.started < DEFAULT_COOLDOWN_MINUTES * 60 * 1000
    /\ \A m \in DOMAIN switching.atStart :
          ~CooldownElapsed(switching.atStart[m], switching.started)
              => ~CooldownElapsed(switching.atStart[m], now)

RestartOnceOn401 ==
    LET posts == restart.posts
    IN /\ restart.invalidated <= 1
       /\ Len(posts) <= 2
       /\ (Len(posts) >= 1 /\ posts[1] = 401) =>
             /\ restart.invalidated = 1
             /\ IF Len(posts) = 1
                THEN restart.status = "posting" /\ ~restart.access_token
                ELSE restart.status # "posting"
       /\ (Len(posts) >= 1 /\ posts[1] # 401) =>
             /\ restart.invalidated = 0
             /\ Len(posts) = 1
             /\ restart.status # "posting"
       /\ (Len(posts) = 2 /\ posts[2] = 401) =>
             /\ restart.status = "failed"
             /\ restart.error = Some(401)

\* the reissued request was answered 401 as well and the call has failed
RestartOnceOn401Witness ==
    /\ restart.posts = <<401, 401>>
    /\ restart.status = "failed"
    /\ restart.invalidated = 1
    /\ restart.calls = 2

\* C33: during project discovery, onboardUser is called at most 30 times;
\* discovery terminates either by adopting the project id of the first
\* response with done = true, or, if no response within those 30 calls reports
\* done (or the done response has no project id), by failing with an error, in
\* which case no project id is cached on the client.
OnboardingBounded ==
    /\ discovery.onboardUser <= 30
    /\ discovery.done <= 1
    /\ (discovery.status = "onboardUser") =>
          discovery.onboardUser < 30 /\ discovery.done = 0
    /\ (discovery.status = "returned" /\ discovery.onboardUser > 0) =>
          /\ discovery.done = 1
          /\ discovery.lroResponse[1].done
          /\ TruthyId(discovery.lroResponse[1].id)
          /\ discovery.projectId = discovery.lroResponse[1].id
          /\ discovery.returned = discovery.lroResponse[1].id
    /\ (discovery.status = "failed") =>
          /\ discovery.error # None
          /\ ~TruthyId(discovery.projectId)
          /\ discovery.returned = None
    /\ (discovery.onboardUser > 0 /\ discovery.status \notin {"onboardUser", "failed"}) =>
          discovery.status = "returned"
    /\ (discovery.done = 1 /\ ~TruthyId(discovery.lroResponse[1].id)) =>
          discovery.status = "failed"

\* thirty responses, none of them done: the discovery has failed
OnboardingBoundedWitness ==
    /\ discovery.status = "failed"
    /\ discovery.onboardUser = 30
    /\ discovery.retryCount = 30
    /\ discovery.done = 0
    /\ discovery.lroResponse # None
    /\ discovery.projectId = None

\* C34: after any sequence of cache operations, every value stored in the
\* thinking-signature-by-family map and in the signature-by-tool-call-id map
\* is a string of at least 100 characters, and no entry has an empty tool id
\* as key; an attempt to cache a shorter signature leaves both maps unchanged.
CachedSignaturesValid ==
    /\ \A f \in DOMAIN thinkingSignatureCache : thinkingSignatureCache[f].len >= 100
    /\ \A id \in DOMAIN toolSignatureCache :
          toolSignatureCache[id].len >= 100 /\ id # 0
    /\ (argument # None /\ argument[1].value.signature.len < 100) =>
          /\ thinkingSignatureCache = result[1].value.thinkingSignatureCache
          /\ toolSignatureCache = result[1].value.toolSignatureCache

\* both maps hold entries and the last call, with a signature of 99
\* characters for a tool id, has left them as they were
CachedSignaturesValidWitness ==
    /\ argument # None
    /\ argument[1].function = "cacheToolSignature"
    /\ argument[1].value.signature = SigShort
    /\ argument[1].value.toolId = 2
    /\ DOMAIN toolSignatureCache = {1}
    /\ DOMAIN thinkingSignatureCache = {"gemini", "claude"}
    /\ toolSignatureCache = result[1].value.toolSignatureCache

\* C35: every mutation of the signature cache is an idempotent insertion of
\* a new entry: caching a signature under a key never replaces a different
\* signature already stored under that key (tool id or model family), and
\* repeating the same insertion leaves the cache unchanged.
CacheInsertsOnly ==
    (argument # None) =>
        LET before == result[1].value
            a == argument[1].value
        IN /\ \A f \in DOMAIN before.thinkingSignatureCache :
                 thinkingSignatureCache[f] = before.thinkingSignatureCache[f]
           /\ \A id \in DOMAIN before.toolSignatureCache :
                 toolSignatureCache[id] = before.toolSignatureCache[id]
           /\ IF argument[1].function = "cacheToolSignature"
              THEN cacheToolSignature(SignatureCaches, a.toolId, a.signature)
                   = SignatureCaches
              ELSE cacheThinkingSignature(SignatureCaches, a.signature, a.modelFamily)
                   = SignatureCaches

\* the tool calls of the chunks the client yielded for the current response
YieldedToolCalls == ConcatToolCalls(chunks)

\* the response of the current request has been completed
ResponseCompleted ==
    \/ request.mode = "stream" /\ emitter.ended
    \/ request.mode = "nonstream" /\ response # None

\* C36: after a completed response, streamed or not, in which an upstream
\* functionCall part carried a valid thoughtSignature, the signature cache
\* maps the tool_call_id minted for that part to that signature.
ToolSignatureCachedAfterResponse ==
    ResponseCompleted =>
        \A i \in 1..Len(YieldedToolCalls) :
            isValidSignature(YieldedToolCalls[i].thoughtSignature) =>
                /\ YieldedToolCalls[i].id \in DOMAIN toolSignatureCache
                /\ toolSignatureCache[YieldedToolCalls[i].id]
                      = YieldedToolCalls[i].thoughtSignature

\* the payloads of the text_delta events among out[1..n], in emission order
RECURSIVE TextDeltaPayloads(_, _)
TextDeltaPayloads(out, n) ==
    IF n = 0 THEN EmptyStr
    ELSE TextDeltaPayloads(out, n - 1)
         \o (IF out[n].type = "content_block_delta" /\ out[n].kind = "text_delta"
             THEN out[n].text ELSE EmptyStr)

\* the content of the chunks cs[1..n] that carry content and are not thoughts
RECURSIVE NonThoughtContent(_, _)
NonThoughtContent(cs, n) ==
    IF n = 0 THEN EmptyStr
    ELSE NonThoughtContent(cs, n - 1)
         \o (IF TruthyStr(cs[n].delta.content) /\ cs[n].delta.thought # TRUE
             THEN cs[n].delta.content[1] ELSE EmptyStr)

\* C37: in a completed Anthropic stream in which some chunk carried content
\* or a tool call, the text_delta payloads, concatenated in emission order,
\* equal the concatenated content of the non-thought content chunks received,
\* whitespace-only chunks included.
TextDeltasCarryContent ==
    (request.mode = "stream" /\ emitter.ended /\ CarriedContent) =>
        TextDeltaPayloads(emitter.out, Len(emitter.out))
            = NonThoughtContent(chunks, Len(chunks))

\* the text of the upstream parts ps[1..n] that are text and not thoughts
RECURSIVE NonThoughtText(_, _)
NonThoughtText(ps, n) ==
    IF n = 0 THEN EmptyStr
    ELSE NonThoughtText(ps, n - 1)
         \o (IF ps[n].kind = "text" /\ ps[n].thought # TRUE
             THEN ps[n].text ELSE EmptyStr)

\* the text of the text blocks of a non-streamed message
RECURSIVE MessageText(_, _)
MessageText(content, n) ==
    IF n = 0 THEN EmptyStr
    ELSE MessageText(content, n - 1)
         \o (IF content[n].type = "text" THEN content[n].text ELSE EmptyStr)

\* C38: the content getCompletion returns, and with it the text of the
\* non-streamed response, is the concatenation of the upstream text parts that
\* are not thoughts: no text of a part with thought = true appears in it.
CompletionContentNonThought ==
    (request.mode = "nonstream" /\ response # None) =>
        /\ getCompletion(chunks).content
              = NonThoughtText(upstream.parts, Len(upstream.parts))
        /\ MessageText(response[1].content, Len(response[1].content))
              = NonThoughtText(upstream.parts, Len(upstream.parts))

\* C40: mapJsonSchemaToGemini terminates for every finite schema, also when
\* its definitions refer to themselves or to each other through $ref: the
\* call returns a schema and does not run out of stack.
SchemaMapperTerminates ==
    Returned("mapJsonSchemaToGemini") => result[1].value # RangeError

====
